---- MODULE Spec2Model ----
(***************************************************************************)
(* SlayScript: the parser (src/slayscript/parser.py), the environment      *)
(* chain (src/slayscript/environment.py), the tree-walking interpreter     *)
(* (src/slayscript/interpreter.py), the lexer (src/slayscript/lexer.py)    *)
(* and the run() and repl() drivers (src/slayscript/main.py).              *)
(*                                                                         *)
(* Python exceptions are modelled as outcomes: every parser operator       *)
(* returns a record with an err field, every interpreter operator returns  *)
(* an outcome [st, val, sig] whose sig names the exception in flight       *)
(* ("none" when the call returned).                                        *)
(***************************************************************************)
EXTENDS Integers, Sequences, FiniteSets, TLC

VARIABLES
    suite,      \* which set of sources the session draws its input from
    mode,       \* the entry point: "run" (run(source)) or "repl" (repl())
    tokens,     \* Parser.tokens: the token list of the source being processed
    ast,        \* the outcome of Parser.parse() on tokens
    pc,         \* Interpreter.interpret: position of the next statement of the program
    interp,     \* the Interpreter object and the objects it reaches
    status,     \* "input", "lexed", "parsed", "exit0", "exit1", "crash", "hung"
    diag,       \* the exception class the error handler printed last ("" if none)
    last,       \* the outcome of the last top-level statement executed
    steps,      \* number of sources read so far
    lexer,      \* the Lexer object of the source being processed
    console     \* repl(): its buffer, the line read last and what the turn did with it

vars == <<suite, mode, tokens, ast, pc, interp, status, diag, last, steps, lexer, console>>

(***************************************************************************)
(* Tokens (src/slayscript/tokens.py) as the parser reads them: their type  *)
(* and, for literals and identifiers, their value.                         *)
(***************************************************************************)
Tok(type) == [type |-> type, value |-> type]
INT(n) == [type |-> "INTEGER", value |-> n]
STR(s) == [type |-> "STRING", value |-> s]
ID(name) == [type |-> "IDENTIFIER", value |-> name]
EOF == Tok("EOF")
NL == Tok("NEWLINE")

(***************************************************************************)
(* The lexer (src/slayscript/lexer.py).  A source is a sequence of         *)
(* characters, each a string of length one; offsets count from zero as in  *)
(* Python, so the character at offset i is source[i + 1].  A Lexer object  *)
(* is a record of its attributes, with two more fields: state, which is    *)
(* "scanning" until tokenize() returns ("done") or an exception leaves it  *)
(* (the name of the exception class), and met, the offsets of the          *)
(* linefeeds that scan_token() read as the first character of a lexeme.    *)
(* A token carries, besides the fields of the Token dataclass, the offset  *)
(* `at` of Lexer.start when it was made.                                   *)
(***************************************************************************)
LexToken(type, value, line, column, at) ==
    [type |-> type, value |-> value, line |-> line, column |-> column, at |-> at]

\* '\0', which peek() and peek_next() return past the end; no source holds it
NUL == "NUL"

\* str.isdigit() is true of the ASCII digits and of digits such as the
\* superscript two, which int() and float() do not accept
ASCIIDigits == {"0", "1", "2", "3", "4", "5", "6", "7", "8", "9"}
SuperscriptDigits == {"²"}
isdigit(c) == c \in ASCIIDigits \cup SuperscriptDigits
isalpha(c) ==
    c \in {"a", "b", "c", "d", "e", "f", "g", "h", "i", "j", "k", "l", "m",
           "n", "o", "p", "q", "r", "s", "t", "u", "v", "w", "x", "y", "z",
           "A", "B", "C", "D", "E", "F", "G", "H", "I", "J", "K", "L", "M",
           "N", "O", "P", "Q", "R", "S", "T", "U", "V", "W", "X", "Y", "Z"}
isalnum(c) == isalpha(c) \/ isdigit(c)

KEYWORDS ==
    ("conjure" :> "CONJURE") @@ ("summon" :> "SUMMON") @@ ("transmute" :> "TRANSMUTE") @@
    ("const" :> "CONST") @@ ("prophecy" :> "PROPHECY") @@ ("vanquish" :> "VANQUISH") @@
    ("as" :> "AS") @@ ("scroll" :> "SCROLL") @@ ("rune" :> "RUNE") @@ ("potion" :> "POTION") @@
    ("charm" :> "CHARM") @@ ("tome" :> "TOME") @@ ("grimoire" :> "GRIMOIRE") @@
    ("void" :> "VOID") @@ ("true" :> "TRUE") @@ ("false" :> "FALSE") @@ ("spell" :> "SPELL") @@
    ("incantation" :> "INCANTATION") @@ ("cast" :> "CAST") @@ ("reveals" :> "REVEALS") @@
    ("otherwise" :> "OTHERWISE") @@ ("fate" :> "FATE") @@ ("decrees" :> "DECREES") @@
    ("patrol" :> "PATROL") @@ ("until" :> "UNTIL") @@ ("hunt" :> "HUNT") @@ ("each" :> "EACH") @@
    ("in" :> "IN") @@ ("break" :> "BREAK") @@ ("continue" :> "CONTINUE") @@ ("is" :> "IS") @@
    ("isnt" :> "ISNT") @@ ("exceeds" :> "EXCEEDS") @@ ("under" :> "UNDER") @@
    ("atleast" :> "ATLEAST") @@ ("atmost" :> "ATMOST") @@ ("and" :> "AND") @@ ("or" :> "OR") @@
    ("not" :> "NOT")

NewLexer(source) ==
    [source |-> source, tokens |-> <<>>, start |-> 0, current |-> 0, line |-> 1,
     column |-> 1, bracket_depth |-> 0, state |-> "scanning", met |-> {}]

Lexer_is_at_end(lx) == lx.current >= Len(lx.source)

Lexer_peek(lx) == IF Lexer_is_at_end(lx) THEN NUL ELSE lx.source[lx.current + 1]

Lexer_peek_next(lx) ==
    IF lx.current + 1 >= Len(lx.source) THEN NUL ELSE lx.source[lx.current + 2]

\* advance(): the lexer after the call; the character returned is the one
\* Lexer_peek gave before it
Lexer_advance(lx) == [lx EXCEPT !.current = @ + 1, !.column = @ + 1]

\* match(): [ok, lx]
Lexer_match(lx, expected) ==
    IF Lexer_is_at_end(lx) \/ lx.source[lx.current + 1] # expected
    THEN [ok |-> FALSE, lx |-> lx]
    ELSE [ok |-> TRUE, lx |-> Lexer_advance(lx)]

add_token(lx, token_type, value) ==
    LET col == lx.column - (lx.current - lx.start)
    IN  [lx EXCEPT !.tokens = Append(@, LexToken(token_type, value, lx.line, col, lx.start))]

\* raise <exception>: the lexer as the exception leaves it
Lexer_raise(lx, exception) == [lx EXCEPT !.state = exception]

\* self.source[self.start:self.current], as a sequence of characters
lexeme(lx) == SubSeq(lx.source, lx.start + 1, lx.current)

\* ''.join(chars)
RECURSIVE join(_)
join(chars) == IF chars = <<>> THEN "" ELSE Head(chars) \o join(Tail(chars))

\* A slip: a backslash before a character that is no escape is dropped
RECURSIVE string_loop_dropping(_, _, _)
string_loop_dropping(lx, quote, value) ==
    IF Lexer_is_at_end(lx) \/ Lexer_peek(lx) = quote THEN [lx |-> lx, value |-> value]
    ELSE LET c == Lexer_peek(lx)
             counted == IF c = "\n" THEN [lx EXCEPT !.line = @ + 1, !.column = 1] ELSE lx
             escaped == Lexer_peek_next(lx)
         IN  IF c = "\\" /\ escaped # NUL
             THEN string_loop_dropping(Lexer_advance(Lexer_advance(counted)), quote,
                                       value \o (IF escaped = "n" THEN "\n"
                                                 ELSE IF escaped = "t" THEN "\t"
                                                 ELSE IF escaped = "r" THEN "\r"
                                                 ELSE escaped))
             ELSE string_loop_dropping(Lexer_advance(counted), quote, value \o c)

\* string()'s `while not self.is_at_end() and self.peek() != quote` loop: [lx, value]
RECURSIVE string_loop(_, _, _)
string_loop(lx, quote, value) ==
    IF Lexer_is_at_end(lx) \/ Lexer_peek(lx) = quote THEN [lx |-> lx, value |-> value]
    ELSE LET c == Lexer_peek(lx)
             counted == IF c = "\n" THEN [lx EXCEPT !.line = @ + 1, !.column = 1] ELSE lx
             escaped == Lexer_peek_next(lx)
         IN  IF c = "\\" /\ escaped \in {quote, "\\", "n", "t", "r"}
             THEN string_loop(Lexer_advance(Lexer_advance(counted)), quote,
                              value \o (IF escaped = "n" THEN "\n"
                                        ELSE IF escaped = "t" THEN "\t"
                                        ELSE IF escaped = "r" THEN "\r"
                                        ELSE escaped))
             ELSE string_loop(Lexer_advance(counted), quote, value \o c)

string(lx, quote) ==
    LET r == string_loop(lx, quote, "")
    IN  IF Lexer_is_at_end(r.lx) THEN Lexer_raise(r.lx, "DarkMagicDetected")
        ELSE add_token(Lexer_advance(r.lx), "STRING", r.value)

\* `while self.peek().isdigit(): self.advance()`
RECURSIVE number_digits(_)
number_digits(lx) == IF isdigit(Lexer_peek(lx)) THEN number_digits(Lexer_advance(lx)) ELSE lx

\* int(text) for a text of ASCII digits
DigitValue ==
    ("0" :> 0) @@ ("1" :> 1) @@ ("2" :> 2) @@ ("3" :> 3) @@ ("4" :> 4) @@
    ("5" :> 5) @@ ("6" :> 6) @@ ("7" :> 7) @@ ("8" :> 8) @@ ("9" :> 9)
RECURSIVE int(_)
int(chars) ==
    IF chars = <<>> THEN 0
    ELSE 10 * int(SubSeq(chars, 1, Len(chars) - 1)) + DigitValue[chars[Len(chars)]]

\* int() and float() raise ValueError on a text with a digit that is not a decimal
is_literal(chars) == \A i \in DOMAIN chars : chars[i] \in ASCIIDigits \cup {"."}

\* number(): a FLOAT token keeps the text of the literal as its value
number(lx) ==
    LET whole == number_digits(lx)
    IN  IF Lexer_peek(whole) = "." /\ isdigit(Lexer_peek_next(whole))
        THEN LET fraction == number_digits(Lexer_advance(whole))
             IN  IF is_literal(lexeme(fraction))
                 THEN add_token(fraction, "FLOAT", join(lexeme(fraction)))
                 ELSE Lexer_raise(fraction, "ValueError")
        ELSE IF is_literal(lexeme(whole))
             THEN add_token(whole, "INTEGER", int(lexeme(whole)))
             ELSE Lexer_raise(whole, "ValueError")

\* identifier()'s `while self.peek().isalnum() or self.peek() == '_'` loop
RECURSIVE identifier_loop(_)
identifier_loop(lx) ==
    IF isalnum(Lexer_peek(lx)) \/ Lexer_peek(lx) = "_"
    THEN identifier_loop(Lexer_advance(lx)) ELSE lx

identifier(lx) ==
    LET end == identifier_loop(lx)
        text == join(lexeme(end))
    IN  IF text \in DOMAIN KEYWORDS THEN add_token(end, KEYWORDS[text], text)
        ELSE add_token(end, "IDENTIFIER", text)

RECURSIVE single_line_comment(_)
single_line_comment(lx) ==
    IF ~Lexer_is_at_end(lx) /\ Lexer_peek(lx) # "\n"
    THEN single_line_comment(Lexer_advance(lx)) ELSE lx

\* multi_line_comment()'s `while not self.is_at_end()` loop
RECURSIVE multi_line_comment_loop(_)
multi_line_comment_loop(lx) ==
    IF Lexer_is_at_end(lx) THEN Lexer_raise(lx, "DarkMagicDetected")
    ELSE IF Lexer_peek(lx) = "~" /\ Lexer_peek_next(lx) = "~"
    THEN Lexer_advance(Lexer_advance(lx))
    ELSE IF Lexer_peek(lx) = "\n"
    THEN multi_line_comment_loop(Lexer_advance([lx EXCEPT !.line = @ + 1, !.column = 1]))
    ELSE multi_line_comment_loop(Lexer_advance(lx))

multi_line_comment(lx) == multi_line_comment_loop(Lexer_advance(lx))

token_map ==
    ("+" :> "PLUS") @@ ("-" :> "MINUS") @@ ("*" :> "STAR") @@ ("/" :> "SLASH") @@
    ("%" :> "PERCENT") @@ ("(" :> "LPAREN") @@ (")" :> "RPAREN") @@ ("[" :> "LBRACKET") @@
    ("]" :> "RBRACKET") @@ ("{" :> "LBRACE") @@ ("}" :> "RBRACE") @@ ("," :> "COMMA") @@
    (":" :> "COLON") @@ ("." :> "DOT")

\* A slip: the depth is let fall below zero
track_bracket_depth_unclamped(c, depth) ==
    IF c \in {"(", "[", "{"} THEN depth + 1
    ELSE IF c \in {")", "]", "}"} THEN depth - 1
    ELSE depth

\* scan_token's bookkeeping of bracket_depth for a character of token_map
track_bracket_depth(c, depth) ==
    IF c \in {"(", "[", "{"} THEN depth + 1
    ELSE IF c \in {")", "]", "}"} THEN (IF depth - 1 > 0 THEN depth - 1 ELSE 0)
    ELSE depth

\* scan_token(), called with start = current and not at the end
scan_token(lx0) ==
    LET c == Lexer_peek(lx0)
        lx == Lexer_advance(lx0)
    IN  IF c \in {" ", "\t", "\r"} THEN lx
        ELSE IF c = "\n"
        THEN LET emitted == IF lx.bracket_depth = 0
                            THEN Append(lx.tokens, LexToken("NEWLINE", "\n", lx.line, lx.column, lx.start))
                            ELSE lx.tokens
             IN  [lx EXCEPT !.tokens = emitted, !.line = @ + 1, !.column = 1,
                            !.met = @ \cup {lx.start}]
        ELSE IF c = "~"
        THEN (IF Lexer_peek(lx) = "~" THEN multi_line_comment(lx) ELSE single_line_comment(lx))
        ELSE IF c \in {"\"", "'"} THEN string(lx, c)
        ELSE IF isdigit(c) THEN number(lx)
        ELSE IF isalpha(c) \/ c = "_" THEN identifier(lx)
        ELSE IF c = "*" /\ Lexer_match(lx, "*").ok
        THEN add_token(Lexer_match(lx, "*").lx, "POWER", "**")
        ELSE IF c \in DOMAIN token_map
        THEN add_token([lx EXCEPT !.bracket_depth = track_bracket_depth(c, @)], token_map[c], c)
        ELSE Lexer_raise(lx, "DarkMagicDetected")

\* the body of tokenize()'s loop
tokenize_step(lx) == scan_token([lx EXCEPT !.start = lx.current])

\* what tokenize() does after its loop
tokenize_end(lx) ==
    [lx EXCEPT !.tokens = Append(@, LexToken("EOF", "", lx.line, lx.column, lx.current)),
               !.state = "done"]

\* n turns of tokenize()'s loop, the last of which may be the end of the
\* call; nothing happens once the call has returned or raised.  The turns are
\* taken half by half, which keeps the evaluation of a long source shallow.
RECURSIVE tokenize_turns(_, _)
tokenize_turns(lx, n) ==
    IF n = 0 \/ lx.state # "scanning" THEN lx
    ELSE IF n = 1 THEN (IF Lexer_is_at_end(lx) THEN tokenize_end(lx) ELSE tokenize_step(lx))
    ELSE tokenize_turns(tokenize_turns(lx, n \div 2), n - (n \div 2))

\* tokenize(): the lexer when the call has returned or raised.  Every turn of
\* the loop reads at least one character, so the call is over after as many
\* turns as the source has characters, and one more.
tokenize_loop(lx) == tokenize_turns(lx, Len(lx.source) + 1)

tokenize(source) == tokenize_loop(NewLexer(source))

(***************************************************************************)
(* Runtime values: Python objects tagged by their class.                   *)
(***************************************************************************)
IntV(n) == [t |-> "int", v |-> n]
BoolV(b) == [t |-> "bool", v |-> IF b THEN 1 ELSE 0]
None == [t |-> "void", v |-> 0]
FuncV(id) == [t |-> "func", v |-> id]
ListV(ref) == [t |-> "list", v |-> ref]
StrV(s) == [t |-> "str", v |-> s]

(***************************************************************************)
(* AST nodes (src/slayscript/ast_nodes.py), without line and column.       *)
(***************************************************************************)
Literal(value) == [type |-> "Literal", value |-> value]
Identifier(name) == [type |-> "Identifier", name |-> name]
BinaryOp(left, operator, right) ==
    [type |-> "BinaryOp", left |-> left, operator |-> operator, right |-> right]
UnaryOp(operator, operand) == [type |-> "UnaryOp", operator |-> operator, operand |-> operand]
TomeExpr(elements) == [type |-> "TomeExpr", elements |-> elements]
IndexExpr(collection, index) == [type |-> "IndexExpr", collection |-> collection, index |-> index]
CallExpr(callee, arguments) == [type |-> "CallExpr", callee |-> callee, arguments |-> arguments]
VarDecl(name, value, is_const) ==
    [type |-> "VarDecl", name |-> name, value |-> value, is_const |-> is_const]
VarAssign(name, value) == [type |-> "VarAssign", name |-> name, value |-> value]
IndexAssign(collection, index, value) ==
    [type |-> "IndexAssign", collection |-> collection, index |-> index, value |-> value]
VarDelete(name) == [type |-> "VarDelete", name |-> name]
SpellDecl(name, params, body) ==
    [type |-> "SpellDecl", name |-> name, params |-> params, body |-> body]
CastStmt(has_value, value) == [type |-> "CastStmt", has_value |-> has_value, value |-> value]
IfStmt(condition, then_branch, elif_branches, has_else, else_branch) ==
    [type |-> "IfStmt", condition |-> condition, then_branch |-> then_branch,
     elif_branches |-> elif_branches, has_else |-> has_else, else_branch |-> else_branch]
WhileStmt(condition, body) == [type |-> "WhileStmt", condition |-> condition, body |-> body]
ForStmt(variable, iterable, body) ==
    [type |-> "ForStmt", variable |-> variable, iterable |-> iterable, body |-> body]
BreakStmt == [type |-> "BreakStmt"]
ContinueStmt == [type |-> "ContinueStmt"]
ExprStmt(expression) == [type |-> "ExprStmt", expression |-> expression]
Program(statements) == [type |-> "Program", statements |-> statements]

(***************************************************************************)
(* Parser (src/slayscript/parser.py).  The parser object's state is the    *)
(* token list and the cursor `current`; every operator takes both and      *)
(* returns the node it built with the cursor after it, or a SpellMiscast.  *)
(* `cur` is the 1-based position of Parser.current.                        *)
(***************************************************************************)
PR(node, cur) == [err |-> FALSE, node |-> node, cur |-> cur]
SpellMiscast(message, cur) ==
    [err |-> TRUE, node |-> [type |-> "SpellMiscast", message |-> message], cur |-> cur]

peek(toks, cur) == toks[cur]
is_at_end(toks, cur) == peek(toks, cur).type = "EOF"
check(toks, cur, token_type) == ~is_at_end(toks, cur) /\ peek(toks, cur).type = token_type
advance(toks, cur) == IF ~is_at_end(toks, cur) THEN cur + 1 ELSE cur
\* match() consumes the token when check() holds: the cursor after the call
match(toks, cur, token_type) == IF check(toks, cur, token_type) THEN advance(toks, cur) ELSE cur
consume(toks, cur, token_type, message) ==
    IF check(toks, cur, token_type)
    THEN PR(peek(toks, cur), advance(toks, cur))
    ELSE SpellMiscast(message, cur)

RECURSIVE skip_newlines(_, _)
skip_newlines(toks, cur) ==
    IF check(toks, cur, "NEWLINE") THEN skip_newlines(toks, advance(toks, cur)) ELSE cur

check_type_keyword(toks, cur) ==
    \E k \in {"SCROLL", "RUNE", "POTION", "CHARM", "TOME", "GRIMOIRE"} : check(toks, cur, k)

\* self.<method>(): one parsing method calls another through the parser object
RECURSIVE Parser_call(_, _, _)
RECURSIVE list_elements(_, _, _), call_args(_, _, _), call_loop(_, _, _)

\* list_literal's loop: `while self.match(COMMA)` with the trailing comma allowed
list_elements(toks, cur, elements) ==
    IF check(toks, cur, "COMMA")
    THEN LET c1 == advance(toks, cur) IN
         IF check(toks, c1, "RBRACKET") THEN PR(elements, c1)
         ELSE LET e == Parser_call("expression", toks, c1) IN
              IF e.err THEN e ELSE list_elements(toks, e.cur, Append(elements, e.node))
    ELSE PR(elements, cur)

list_literal(toks, cur) ==
    LET first == IF ~check(toks, cur, "RBRACKET")
                 THEN LET e == Parser_call("expression", toks, cur) IN
                      IF e.err THEN e ELSE list_elements(toks, e.cur, <<e.node>>)
                 ELSE PR(<<>>, cur)
    IN IF first.err THEN first
       ELSE LET close == consume(toks, first.cur, "RBRACKET", "Expected ']' after list elements") IN
            IF close.err THEN close ELSE PR(TomeExpr(first.node), close.cur)

tome_literal(toks, cur) ==
    LET open == consume(toks, cur, "LBRACKET", "Expected '[' after 'tome'") IN
    IF open.err THEN open ELSE Parser_call("list_literal", toks, open.cur)

primary(toks, cur) ==
    LET token == peek(toks, cur)
        nxt == advance(toks, cur)
    IN
    IF check(toks, cur, "INTEGER") THEN PR(Literal(IntV(token.value)), nxt)
    ELSE IF check(toks, cur, "STRING") THEN PR(Literal(StrV(token.value)), nxt)
    ELSE IF check(toks, cur, "TRUE") THEN PR(Literal(BoolV(TRUE)), nxt)
    ELSE IF check(toks, cur, "FALSE") THEN PR(Literal(BoolV(FALSE)), nxt)
    ELSE IF check(toks, cur, "VOID") THEN PR(Literal(None), nxt)
    ELSE IF check(toks, cur, "RUNE") THEN
        LET val == consume(toks, nxt, "INTEGER", "Expected integer after 'rune'") IN
        IF val.err THEN val ELSE PR(Literal(IntV(val.node.value)), val.cur)
    ELSE IF check(toks, cur, "CHARM") THEN
        IF check(toks, nxt, "TRUE") THEN PR(Literal(BoolV(TRUE)), advance(toks, nxt))
        ELSE IF check(toks, nxt, "FALSE") THEN PR(Literal(BoolV(FALSE)), advance(toks, nxt))
        ELSE SpellMiscast("Expected 'true' or 'false' after 'charm'", nxt)
    ELSE IF check(toks, cur, "TOME") THEN Parser_call("tome_literal", toks, nxt)
    ELSE IF check(toks, cur, "LBRACKET") THEN Parser_call("list_literal", toks, nxt)
    ELSE IF check(toks, cur, "IDENTIFIER") THEN PR(Identifier(token.value), nxt)
    ELSE IF check(toks, cur, "LPAREN") THEN
        LET expr == Parser_call("expression", toks, nxt) IN
        IF expr.err THEN expr
        ELSE LET close == consume(toks, expr.cur, "RPAREN", "Expected ')' after expression") IN
             IF close.err THEN close ELSE PR(expr.node, close.cur)
    ELSE SpellMiscast("Unexpected token", cur)

\* call()'s argument loop: `while self.match(COMMA)`
call_args(toks, cur, args) ==
    IF check(toks, cur, "COMMA")
    THEN LET e == Parser_call("expression", toks, advance(toks, cur)) IN
         IF e.err THEN e ELSE call_args(toks, e.cur, Append(args, e.node))
    ELSE PR(args, cur)

\* call()'s `while True` loop over "(", "[" (".", member access, is not modelled)
call_loop(toks, cur, expr) ==
    IF check(toks, cur, "LPAREN") THEN
        LET c1 == advance(toks, cur)
            args == IF ~check(toks, c1, "RPAREN")
                    THEN LET e == Parser_call("expression", toks, c1) IN
                         IF e.err THEN e ELSE call_args(toks, e.cur, <<e.node>>)
                    ELSE PR(<<>>, c1)
        IN IF args.err THEN args
           ELSE LET close == consume(toks, args.cur, "RPAREN", "Expected ')' after arguments") IN
                IF close.err THEN close
                ELSE call_loop(toks, close.cur, CallExpr(expr, args.node))
    ELSE IF check(toks, cur, "LBRACKET") THEN
        LET index == Parser_call("expression", toks, advance(toks, cur)) IN
        IF index.err THEN index
        ELSE LET close == consume(toks, index.cur, "RBRACKET", "Expected ']' after index") IN
             IF close.err THEN close
             ELSE call_loop(toks, close.cur, IndexExpr(expr, index.node))
    ELSE PR(expr, cur)

call(toks, cur) ==
    LET expr == Parser_call("primary", toks, cur) IN
    IF expr.err THEN expr ELSE call_loop(toks, expr.cur, expr.node)

unary(toks, cur) ==
    IF check(toks, cur, "MINUS")
    THEN LET operand == Parser_call("unary", toks, advance(toks, cur)) IN
         IF operand.err THEN operand ELSE PR(UnaryOp("-", operand.node), operand.cur)
    ELSE Parser_call("call", toks, cur)

\* A slip that would make "**" left-associative: a loop over unary()
\* operands instead of the recursive call for the right operand.
RECURSIVE power_left_loop(_, _, _)
power_left_loop(toks, cur, left) ==
    IF check(toks, cur, "POWER")
    THEN LET right == Parser_call("unary", toks, advance(toks, cur)) IN
         IF right.err THEN right
         ELSE power_left_loop(toks, right.cur, BinaryOp(left, "**", right.node))
    ELSE PR(left, cur)

power_left(toks, cur) ==
    LET left == Parser_call("unary", toks, cur) IN
    IF left.err THEN left ELSE power_left_loop(toks, left.cur, left.node)

power(toks, cur) ==
    LET left == Parser_call("unary", toks, cur) IN
    IF left.err THEN left
    ELSE IF check(toks, left.cur, "POWER")
    THEN LET right == Parser_call("power", toks, advance(toks, left.cur)) IN
         IF right.err THEN right ELSE PR(BinaryOp(left.node, "**", right.node), right.cur)
    ELSE left

\* factor()'s `while True` loop
RECURSIVE factor_loop(_, _, _)
factor_loop(toks, cur, left) ==
    LET op == IF check(toks, cur, "STAR") THEN "*"
              ELSE IF check(toks, cur, "SLASH") THEN "/"
              ELSE IF check(toks, cur, "PERCENT") THEN "%"
              ELSE ""
    IN IF op = "" THEN PR(left, cur)
       ELSE LET right == Parser_call("power", toks, advance(toks, cur)) IN
            IF right.err THEN right
            ELSE factor_loop(toks, right.cur, BinaryOp(left, op, right.node))

factor(toks, cur) ==
    LET left == Parser_call("power", toks, cur) IN
    IF left.err THEN left ELSE factor_loop(toks, left.cur, left.node)

\* term()'s `while True` loop
RECURSIVE term_loop(_, _, _)
term_loop(toks, cur, left) ==
    LET op == IF check(toks, cur, "PLUS") THEN "+"
              ELSE IF check(toks, cur, "MINUS") THEN "-"
              ELSE ""
    IN IF op = "" THEN PR(left, cur)
       ELSE LET right == Parser_call("factor", toks, advance(toks, cur)) IN
            IF right.err THEN right
            ELSE term_loop(toks, right.cur, BinaryOp(left, op, right.node))

term(toks, cur) ==
    LET left == Parser_call("factor", toks, cur) IN
    IF left.err THEN left ELSE term_loop(toks, left.cur, left.node)

\* comparison_ops: token type -> operator string
comparison_op(token_type) ==
    CASE token_type = "IS" -> "is"
      [] token_type = "ISNT" -> "isnt"
      [] token_type = "EXCEEDS" -> "exceeds"
      [] token_type = "UNDER" -> "under"
      [] token_type = "ATLEAST" -> "atleast"
      [] token_type = "ATMOST" -> "atmost"
      [] OTHER -> ""

\* comparison()'s `while True` loop
RECURSIVE comparison_loop(_, _, _)
comparison_loop(toks, cur, left) ==
    LET op == IF is_at_end(toks, cur) THEN "" ELSE comparison_op(peek(toks, cur).type)
    IN IF op = "" THEN PR(left, cur)
       ELSE LET right == Parser_call("term", toks, advance(toks, cur)) IN
            IF right.err THEN right
            ELSE comparison_loop(toks, right.cur, BinaryOp(left, op, right.node))

comparison(toks, cur) ==
    LET left == Parser_call("term", toks, cur) IN
    IF left.err THEN left ELSE comparison_loop(toks, left.cur, left.node)

not_expr(toks, cur) ==
    IF check(toks, cur, "NOT")
    THEN LET operand == Parser_call("not_expr", toks, advance(toks, cur)) IN
         IF operand.err THEN operand ELSE PR(UnaryOp("not", operand.node), operand.cur)
    ELSE Parser_call("comparison", toks, cur)

\* and_expr()'s `while self.match(AND)` loop
RECURSIVE and_loop(_, _, _)
and_loop(toks, cur, left) ==
    IF check(toks, cur, "AND")
    THEN LET right == Parser_call("not_expr", toks, advance(toks, cur)) IN
         IF right.err THEN right
         ELSE and_loop(toks, right.cur, BinaryOp(left, "and", right.node))
    ELSE PR(left, cur)

and_expr(toks, cur) ==
    LET left == Parser_call("not_expr", toks, cur) IN
    IF left.err THEN left ELSE and_loop(toks, left.cur, left.node)

\* or_expr()'s `while self.match(OR)` loop
RECURSIVE or_loop(_, _, _)
or_loop(toks, cur, left) ==
    IF check(toks, cur, "OR")
    THEN LET right == Parser_call("and_expr", toks, advance(toks, cur)) IN
         IF right.err THEN right
         ELSE or_loop(toks, right.cur, BinaryOp(left, "or", right.node))
    ELSE PR(left, cur)

or_expr(toks, cur) ==
    LET left == Parser_call("and_expr", toks, cur) IN
    IF left.err THEN left ELSE or_loop(toks, left.cur, left.node)

expression(toks, cur) == Parser_call("or_expr", toks, cur)

\* var_declaration: the optional type hint is consumed and not kept (it is advisory)
var_declaration(toks, cur) ==
    LET c1 == advance(toks, cur)
        name_token == consume(toks, c1, "IDENTIFIER", "Expected variable name")
    IN IF name_token.err THEN name_token
       ELSE LET as == consume(toks, name_token.cur, "AS", "Expected 'as' after variable name") IN
            IF as.err THEN as
            ELSE LET c2 == IF check_type_keyword(toks, as.cur) THEN advance(toks, as.cur)
                           ELSE as.cur
                     value == Parser_call("expression", toks, c2)
                 IN IF value.err THEN value
                    ELSE PR(VarDecl(name_token.node.value, value.node, FALSE), value.cur)

const_declaration(toks, cur) ==
    LET c1 == advance(toks, cur)
        kw == consume(toks, c1, "PROPHECY", "Expected 'prophecy' after 'const'")
    IN IF kw.err THEN kw
       ELSE LET name_token == consume(toks, kw.cur, "IDENTIFIER", "Expected constant name") IN
            IF name_token.err THEN name_token
            ELSE LET as == consume(toks, name_token.cur, "AS", "Expected 'as' after constant name") IN
                 IF as.err THEN as
                 ELSE LET value == Parser_call("expression", toks, as.cur) IN
                      IF value.err THEN value
                      ELSE PR(VarDecl(name_token.node.value, value.node, TRUE), value.cur)

var_assignment(toks, cur) ==
    LET c1 == advance(toks, cur)
        target == Parser_call("primary", toks, c1)
    IN IF target.err THEN target
       ELSE LET as == consume(toks, target.cur, "AS", "Expected 'as' after assignment target") IN
            IF as.err THEN as
            ELSE LET value == Parser_call("expression", toks, as.cur) IN
                 IF value.err THEN value
                 ELSE IF target.node.type = "Identifier"
                 THEN PR(VarAssign(target.node.name, value.node), value.cur)
                 ELSE IF target.node.type = "IndexExpr"
                 THEN PR(IndexAssign(target.node.collection, target.node.index, value.node),
                         value.cur)
                 ELSE SpellMiscast("Invalid assignment target", cur)

var_delete(toks, cur) ==
    LET c1 == advance(toks, cur)
        name_token == consume(toks, c1, "IDENTIFIER", "Expected variable name to vanquish")
    IN IF name_token.err THEN name_token
       ELSE PR(VarDelete(name_token.node.value), name_token.cur)

\* spell_declaration's parameter loop: `while self.match(COMMA)`
RECURSIVE spell_params(_, _, _)
spell_params(toks, cur, params) ==
    IF check(toks, cur, "COMMA")
    THEN LET p == consume(toks, advance(toks, cur), "IDENTIFIER", "Expected parameter name") IN
         IF p.err THEN p ELSE spell_params(toks, p.cur, Append(params, p.node.value))
    ELSE PR(params, cur)

spell_declaration(toks, cur) ==
    LET c1 == advance(toks, cur)
        name_token == consume(toks, c1, "IDENTIFIER", "Expected spell name")
    IN IF name_token.err THEN name_token
       ELSE LET open == consume(toks, name_token.cur, "LPAREN", "Expected '(' after spell name") IN
            IF open.err THEN open
            ELSE LET params ==
                         IF ~check(toks, open.cur, "RPAREN")
                         THEN LET p == consume(toks, open.cur, "IDENTIFIER",
                                               "Expected parameter name") IN
                              IF p.err THEN p ELSE spell_params(toks, p.cur, <<p.node.value>>)
                         ELSE PR(<<>>, open.cur)
                 IN IF params.err THEN params
                    ELSE LET close == consume(toks, params.cur, "RPAREN",
                                              "Expected ')' after parameters") IN
                         IF close.err THEN close
                         ELSE LET body == Parser_call("block", toks, close.cur) IN
                              IF body.err THEN body
                              ELSE PR(SpellDecl(name_token.node.value, params.node, body.node),
                                      body.cur)

cast_statement(toks, cur) ==
    LET c1 == advance(toks, cur) IN
    IF ~check(toks, c1, "NEWLINE") /\ ~check(toks, c1, "EOF") /\ ~check(toks, c1, "RBRACE")
    THEN LET value == Parser_call("expression", toks, c1) IN
         IF value.err THEN value ELSE PR(CastStmt(TRUE, value.node), value.cur)
    ELSE PR(CastStmt(FALSE, Literal(None)), c1)

\* if_statement's `while True` loop over the otherwise / fate branches
RECURSIVE if_branches(_, _, _)
if_branches(toks, cur, elif_branches) ==
    LET c1 == skip_newlines(toks, cur) IN
    IF check(toks, c1, "OTHERWISE") THEN
        LET kw == consume(toks, advance(toks, c1), "PROPHECY",
                          "Expected 'prophecy' after 'otherwise'") IN
        IF kw.err THEN kw
        ELSE LET elif_cond == Parser_call("expression", toks, kw.cur) IN
             IF elif_cond.err THEN elif_cond
             ELSE LET elif_body == Parser_call("block", toks, elif_cond.cur) IN
                  IF elif_body.err THEN elif_body
                  ELSE if_branches(toks, elif_body.cur,
                           Append(elif_branches,
                                  [cond |-> elif_cond.node, body |-> elif_body.node]))
    ELSE IF check(toks, c1, "FATE") THEN
        LET kw == consume(toks, advance(toks, c1), "DECREES", "Expected 'decrees' after 'fate'") IN
        IF kw.err THEN kw
        ELSE LET else_branch == Parser_call("block", toks, kw.cur) IN
             IF else_branch.err THEN else_branch
             ELSE PR([elifs |-> elif_branches, has_else |-> TRUE, else_branch |-> else_branch.node],
                     else_branch.cur)
    ELSE PR([elifs |-> elif_branches, has_else |-> FALSE, else_branch |-> <<>>], c1)

if_statement(toks, cur) ==
    LET c1 == advance(toks, cur)
        kw == consume(toks, c1, "REVEALS", "Expected 'reveals' after 'prophecy'")
    IN IF kw.err THEN kw
       ELSE LET condition == Parser_call("expression", toks, kw.cur) IN
            IF condition.err THEN condition
            ELSE LET then_branch == Parser_call("block", toks, condition.cur) IN
                 IF then_branch.err THEN then_branch
                 ELSE LET rest == if_branches(toks, then_branch.cur, <<>>) IN
                      IF rest.err THEN rest
                      ELSE PR(IfStmt(condition.node, then_branch.node, rest.node.elifs,
                                     rest.node.has_else, rest.node.else_branch),
                              rest.cur)

while_statement(toks, cur) ==
    LET c1 == advance(toks, cur)
        kw == consume(toks, c1, "UNTIL", "Expected 'until' after 'patrol'")
    IN IF kw.err THEN kw
       ELSE LET condition == Parser_call("expression", toks, kw.cur) IN
            IF condition.err THEN condition
            ELSE LET body == Parser_call("block", toks, condition.cur) IN
                 IF body.err THEN body
                 ELSE PR(WhileStmt(condition.node, body.node), body.cur)

for_statement(toks, cur) ==
    LET c1 == advance(toks, cur)
        kw == consume(toks, c1, "EACH", "Expected 'each' after 'hunt'")
    IN IF kw.err THEN kw
       ELSE LET var_token == consume(toks, kw.cur, "IDENTIFIER", "Expected loop variable") IN
            IF var_token.err THEN var_token
            ELSE LET in == consume(toks, var_token.cur, "IN", "Expected 'in' after loop variable") IN
                 IF in.err THEN in
                 ELSE LET iterable == Parser_call("expression", toks, in.cur) IN
                      IF iterable.err THEN iterable
                      ELSE LET body == Parser_call("block", toks, iterable.cur) IN
                           IF body.err THEN body
                           ELSE PR(ForStmt(var_token.node.value, iterable.node, body.node),
                                   body.cur)

break_statement(toks, cur) == PR(BreakStmt, advance(toks, cur))

continue_statement(toks, cur) == PR(ContinueStmt, advance(toks, cur))

expression_statement(toks, cur) ==
    LET expr == Parser_call("expression", toks, cur) IN
    IF expr.err THEN expr ELSE PR(ExprStmt(expr.node), expr.cur)

\* block()'s `while not self.check(RBRACE) and not self.is_at_end()` loop
RECURSIVE block_loop(_, _, _)
block_loop(toks, cur, statements) ==
    IF ~check(toks, cur, "RBRACE") /\ ~is_at_end(toks, cur)
    THEN LET c1 == skip_newlines(toks, cur) IN
         IF check(toks, c1, "RBRACE") THEN PR(statements, c1)
         ELSE LET stmt == Parser_call("statement", toks, c1) IN
              IF stmt.err THEN stmt
              ELSE block_loop(toks, skip_newlines(toks, stmt.cur), Append(statements, stmt.node))
    ELSE PR(statements, cur)

block(toks, cur) ==
    LET open == consume(toks, skip_newlines(toks, cur), "LBRACE", "Expected '{' to begin block") IN
    IF open.err THEN open
    ELSE LET statements == block_loop(toks, open.cur, <<>>) IN
         IF statements.err THEN statements
         ELSE LET close == consume(toks, statements.cur, "RBRACE", "Expected '}' to end block") IN
              IF close.err THEN close ELSE PR(statements.node, close.cur)

statement(toks, cur) ==
    LET c == skip_newlines(toks, cur) IN
    IF check(toks, c, "CONJURE") \/ check(toks, c, "SUMMON") THEN var_declaration(toks, c)
    ELSE IF check(toks, c, "CONST") THEN const_declaration(toks, c)
    ELSE IF check(toks, c, "TRANSMUTE") THEN var_assignment(toks, c)
    ELSE IF check(toks, c, "VANQUISH") THEN var_delete(toks, c)
    ELSE IF check(toks, c, "SPELL") THEN spell_declaration(toks, c)
    ELSE IF check(toks, c, "CAST") THEN cast_statement(toks, c)
    ELSE IF check(toks, c, "PROPHECY") THEN if_statement(toks, c)
    ELSE IF check(toks, c, "PATROL") THEN while_statement(toks, c)
    ELSE IF check(toks, c, "HUNT") THEN for_statement(toks, c)
    ELSE IF check(toks, c, "BREAK") THEN break_statement(toks, c)
    ELSE IF check(toks, c, "CONTINUE") THEN continue_statement(toks, c)
    ELSE expression_statement(toks, c)

Parser_call(method, toks, cur) ==
    CASE method = "expression" -> expression(toks, cur)
      [] method = "or_expr" -> or_expr(toks, cur)
      [] method = "and_expr" -> and_expr(toks, cur)
      [] method = "not_expr" -> not_expr(toks, cur)
      [] method = "comparison" -> comparison(toks, cur)
      [] method = "term" -> term(toks, cur)
      [] method = "factor" -> factor(toks, cur)
      [] method = "power" -> power(toks, cur)
      [] method = "unary" -> unary(toks, cur)
      [] method = "call" -> call(toks, cur)
      [] method = "primary" -> primary(toks, cur)
      [] method = "list_literal" -> list_literal(toks, cur)
      [] method = "tome_literal" -> tome_literal(toks, cur)
      [] method = "block" -> block(toks, cur)
      [] method = "statement" -> statement(toks, cur)

\* parse()'s `while not self.is_at_end()` loop
RECURSIVE parse_loop(_, _, _)
parse_loop(toks, cur, statements) ==
    IF ~is_at_end(toks, cur)
    THEN LET c1 == skip_newlines(toks, cur) IN
         IF ~is_at_end(toks, c1)
         THEN LET stmt == Parser_call("statement", toks, c1) IN
              IF stmt.err THEN stmt
              ELSE parse_loop(toks, stmt.cur, Append(statements, stmt.node))
         ELSE parse_loop(toks, c1, statements)
    ELSE PR(Program(statements), cur)

parse(toks) == parse_loop(toks, 1, <<>>)

(***************************************************************************)
(* Environment (src/slayscript/environment.py).  The interpreter state st  *)
(* holds every Environment object in st.envs; an environment is named by   *)
(* its index, parent = 0 is Python's None.                                 *)
(***************************************************************************)
NoBindings == [n \in {} |-> None]
NewEnvironment(parent) == [values |-> NoBindings, constants |-> {}, parent |-> parent]

\* Environment(parent): the state with the new object, which gets the next index
AllocEnv(st, parent) == [st EXCEPT !.envs = Append(@, NewEnvironment(parent))]

\* A slip: define() that never records the constant flag
Env_define_no_flag(st, e, name, value, is_const) ==
    [st EXCEPT !.envs[e].values =
        [n \in (DOMAIN @) \cup {name} |-> IF n = name THEN value ELSE @[n]]]

Env_define(st, e, name, value, is_const) ==
    [st EXCEPT !.envs[e].values =
                   [n \in (DOMAIN @) \cup {name} |-> IF n = name THEN value ELSE @[n]],
               !.envs[e].constants = IF is_const THEN @ \cup {name} ELSE @]

\* get(): [sig, val]
RECURSIVE Env_get(_, _, _)
Env_get(st, e, name) ==
    IF name \in DOMAIN st.envs[e].values
    THEN [sig |-> "none", val |-> st.envs[e].values[name]]
    ELSE IF st.envs[e].parent # 0 THEN Env_get(st, st.envs[e].parent, name)
    ELSE [sig |-> "UnknownIncantation", val |-> None]

RECURSIVE Env_is_constant(_, _, _)
Env_is_constant(st, e, name) ==
    IF name \in st.envs[e].constants THEN TRUE
    ELSE IF st.envs[e].parent # 0 THEN Env_is_constant(st, st.envs[e].parent, name)
    ELSE FALSE

\* A slip: assign() without any look at the constants sets
RECURSIVE Env_assign_unchecked(_, _, _, _)
Env_assign_unchecked(st, e, name, value) ==
    IF name \in DOMAIN st.envs[e].values
    THEN [sig |-> "none", st |-> [st EXCEPT !.envs[e].values[name] = value]]
    ELSE IF st.envs[e].parent # 0
    THEN Env_assign_unchecked(st, st.envs[e].parent, name, value)
    ELSE [sig |-> "UnknownIncantation", st |-> st]

\* assign(): [sig, st]
RECURSIVE Env_assign(_, _, _, _)
Env_assign(st, e, name, value) ==
    IF name \in st.envs[e].constants
    THEN [sig |-> "ProphecyViolation", st |-> st]
    ELSE IF name \in DOMAIN st.envs[e].values
    THEN [sig |-> "none", st |-> [st EXCEPT !.envs[e].values[name] = value]]
    ELSE IF st.envs[e].parent # 0
    THEN IF Env_is_constant(st, st.envs[e].parent, name)
         THEN [sig |-> "ProphecyViolation", st |-> st]
         ELSE Env_assign(st, st.envs[e].parent, name, value)
    ELSE [sig |-> "UnknownIncantation", st |-> st]

\* A slip: delete() that removes the name from every environment of the chain
RECURSIVE Env_delete_every(_, _, _)
Env_delete_every(st, e, name) ==
    LET here == IF name \in DOMAIN st.envs[e].values
                THEN [st EXCEPT !.envs[e].values = [n \in (DOMAIN @) \ {name} |-> @[n]]]
                ELSE st
        up == IF st.envs[e].parent # 0 THEN Env_delete_every(here, st.envs[e].parent, name)
              ELSE [sig |-> "UnknownIncantation", st |-> here]
    IN IF name \in DOMAIN st.envs[e].values THEN [sig |-> "none", st |-> up.st] ELSE up

\* delete(): [sig, st]
RECURSIVE Env_delete(_, _, _)
Env_delete(st, e, name) ==
    IF name \in st.envs[e].constants
    THEN [sig |-> "ProphecyViolation", st |-> st]
    ELSE IF name \in DOMAIN st.envs[e].values
    THEN [sig |-> "none",
          st |-> [st EXCEPT !.envs[e].values = [n \in (DOMAIN @) \ {name} |-> @[n]]]]
    ELSE IF st.envs[e].parent # 0
    THEN IF Env_is_constant(st, st.envs[e].parent, name)
         THEN [sig |-> "ProphecyViolation", st |-> st]
         ELSE Env_delete(st, st.envs[e].parent, name)
    ELSE [sig |-> "UnknownIncantation", st |-> st]

(***************************************************************************)
(* Interpreter (src/slayscript/interpreter.py).                            *)
(*                                                                         *)
(* The state st of the Interpreter object and of the objects it reaches:   *)
(*   envs   every Environment, by index; envs[1] is Interpreter.globals    *)
(*   cur    Interpreter.environment                                        *)
(*   funcs  every SlayFunction: [name, params, body, closure]              *)
(*   heap   every Python list, by reference                                *)
(*   fuel   what is left of the budget of loop iterations and calls        *)
(*   ncalls, nloops, log   history of the unit being executed: the count   *)
(*          of SlayFunction.call invocations, of loops entered, and the    *)
(*          events the properties below are stated over                    *)
(* An outcome is [st, val, sig]: sig = "none" and the value returned, or   *)
(* the exception in flight (val is SpellReturn's value).  "TypeError",     *)
(* "ZeroDivisionError" and "IndexError" are Python's own exceptions, which *)
(* are no SlayScriptError; "Hung" is a run out of fuel; "Unmodelled"       *)
(* marks an operation on floats or string contents, which the model does   *)
(* not compute.                                                            *)
(***************************************************************************)
Ok(st, val) == [st |-> st, val |-> val, sig |-> "none"]
Raise(st, sig) == [st |-> st, val |-> None, sig |-> sig]
Logged(st, event) == [st EXCEPT !.log = Append(@, event)]

\* The largest base and exponent of "**" the model computes; Python's integers
\* are unbounded, the model's are not.
MaxPower == 9

\* isinstance(v, (int, float)): bool is a subclass of int
IsNumber(v) == v.t \in {"int", "bool"}

is_truthy(st, value) ==
    CASE value.t = "void" -> FALSE
      [] value.t \in {"bool", "int"} -> value.v # 0
      [] value.t = "str" -> value.v # ""
      [] value.t = "list" -> Len(st.heap[value.v]) > 0
      [] OTHER -> TRUE

\* Python's ==, on lists element by element to the given depth of nesting
RECURSIVE PyEq(_, _, _, _)
PyEq(st, a, b, depth) ==
    IF IsNumber(a) /\ IsNumber(b) THEN a.v = b.v
    ELSE IF a.t # b.t THEN FALSE
    ELSE IF a.t = "list"
    THEN a.v = b.v
         \/ (/\ depth > 0
             /\ Len(st.heap[a.v]) = Len(st.heap[b.v])
             /\ \A i \in 1..Len(st.heap[a.v]) :
                    PyEq(st, st.heap[a.v][i], st.heap[b.v][i], depth - 1))
    ELSE a.v = b.v

\* Python's % for a divisor other than zero: the result has the divisor's sign
PyMod(a, b) == IF b > 0 THEN a % b ELSE -((-a) % (-b))

check_numbers(left, right) == IsNumber(left) /\ IsNumber(right)

add(st, left, right) ==
    IF IsNumber(left) /\ IsNumber(right) THEN Ok(st, IntV(left.v + right.v))
    ELSE IF left.t = "str" \/ right.t = "str" THEN Raise(st, "Unmodelled")
    ELSE IF left.t = "list" /\ right.t = "list"
    THEN Ok([st EXCEPT !.heap = Append(@, st.heap[left.v] \o st.heap[right.v])],
            ListV(Len(st.heap) + 1))
    ELSE Raise(st, "ForbiddenMagic")

multiply(st, left, right) ==
    IF IsNumber(left) /\ IsNumber(right) THEN Ok(st, IntV(left.v * right.v))
    ELSE IF (left.t = "str" /\ IsNumber(right)) \/ (IsNumber(left) /\ right.t = "str")
              \/ (left.t = "list" /\ IsNumber(right))
    THEN Raise(st, "Unmodelled")
    ELSE Raise(st, "ForbiddenMagic")

\* the ordering operators: Python's <, >, <=, >= on the two objects
compare(st, op, left, right) ==
    IF IsNumber(left) /\ IsNumber(right)
    THEN Ok(st, BoolV(CASE op = "exceeds" -> left.v > right.v
                        [] op = "under" -> left.v < right.v
                        [] op = "atleast" -> left.v >= right.v
                        [] op = "atmost" -> left.v <= right.v))
    ELSE IF left.t = "str" /\ right.t = "str" /\ left.v = right.v
    THEN Ok(st, BoolV(op \in {"atleast", "atmost"}))
    ELSE IF left.t = right.t /\ left.t \in {"str", "list"} THEN Raise(st, "Unmodelled")
    ELSE Raise(st, "TypeError")

\* visit_BinaryOp after both operands have been evaluated
binary_result(st, op, left, right) ==
    CASE op = "+" -> add(st, left, right)
      [] op = "-" -> IF check_numbers(left, right) THEN Ok(st, IntV(left.v - right.v))
                     ELSE Raise(st, "ForbiddenMagic")
      [] op = "*" -> multiply(st, left, right)
      [] op = "/" -> IF ~check_numbers(left, right) THEN Raise(st, "ForbiddenMagic")
                     ELSE IF right.v = 0 THEN Raise(st, "ForbiddenMagic")
                     ELSE Raise(st, "Unmodelled")
      [] op = "%" -> IF ~check_numbers(left, right) THEN Raise(st, "ForbiddenMagic")
                     ELSE IF right.v = 0 THEN Raise(st, "ZeroDivisionError")
                     ELSE Ok(st, IntV(PyMod(left.v, right.v)))
      [] op = "**" -> IF ~check_numbers(left, right) THEN Raise(st, "ForbiddenMagic")
                      ELSE IF right.v < 0
                      THEN IF left.v = 0 THEN Raise(st, "ZeroDivisionError")
                           ELSE Raise(st, "Unmodelled")
                      ELSE IF right.v > MaxPower \/ left.v > MaxPower \/ -left.v > MaxPower
                      THEN Raise(st, "Unmodelled")
                      ELSE Ok(st, IntV(left.v ^ right.v))
      [] op = "is" -> Ok(st, BoolV(PyEq(st, left, right, 2)))
      [] op = "isnt" -> Ok(st, BoolV(~PyEq(st, left, right, 2)))
      [] op \in {"exceeds", "under", "atleast", "atmost"} -> compare(st, op, left, right)
      [] op = "and" -> Ok(st, BoolV(is_truthy(st, left) /\ is_truthy(st, right)))
      [] op = "or" -> Ok(st, BoolV(is_truthy(st, left) \/ is_truthy(st, right)))
      [] OTHER -> Raise(st, "ForbiddenMagic")

RECURSIVE execute(_, _)
evaluate(node, st) == execute(node, st)

visit_Literal(node, st) == Ok(st, node.value)

visit_Identifier(node, st) ==
    LET got == Env_get(st, st.cur, node.name) IN
    IF got.sig # "none" THEN Raise(st, got.sig) ELSE Ok(st, got.val)

\* Both operands are evaluated before the operator is looked at.  For "and"
\* and "or" the log keeps what the evaluation of the right operand did.
visit_BinaryOp(node, st) ==
    LET left == evaluate(node.left, st) IN
    IF left.sig # "none" THEN left
    ELSE LET right == evaluate(node.right, left.st) IN
         IF right.sig # "none" THEN right
         ELSE LET res == binary_result(right.st, node.operator, left.val, right.val) IN
              IF node.operator \in {"and", "or"} /\ res.sig = "none"
              THEN [res EXCEPT !.st = Logged(@,
                        [ev |-> "logical", op |-> node.operator,
                         left_truthy |-> is_truthy(left.st, left.val),
                         right_calls |-> right.st.ncalls - left.st.ncalls,
                         right_changed |-> right.st.envs # left.st.envs,
                         result |-> res.val])]
              ELSE res

visit_UnaryOp(node, st) ==
    LET operand == evaluate(node.operand, st) IN
    IF operand.sig # "none" THEN operand
    ELSE IF node.operator = "-"
    THEN IF ~IsNumber(operand.val) THEN Raise(operand.st, "ForbiddenMagic")
         ELSE Ok(operand.st, IntV(-operand.val.v))
    ELSE IF node.operator = "not"
    THEN Ok(operand.st, BoolV(~is_truthy(operand.st, operand.val)))
    ELSE Raise(operand.st, "ForbiddenMagic")

\* [self.evaluate(x) for x in nodes]: val is the sequence of the values
RECURSIVE evaluate_all(_, _, _, _)
evaluate_all(nodes, i, st, values) ==
    IF i > Len(nodes) THEN [st |-> st, val |-> values, sig |-> "none"]
    ELSE LET o == evaluate(nodes[i], st) IN
         IF o.sig # "none" THEN o
         ELSE evaluate_all(nodes, i + 1, o.st, Append(values, o.val))

visit_TomeExpr(node, st) ==
    LET elems == evaluate_all(node.elements, 1, st, <<>>) IN
    IF elems.sig # "none" THEN elems
    ELSE Ok([elems.st EXCEPT !.heap = Append(@, elems.val)], ListV(Len(elems.st.heap) + 1))

visit_IndexExpr(node, st) ==
    LET collection == evaluate(node.collection, st) IN
    IF collection.sig # "none" THEN collection
    ELSE LET index == evaluate(node.index, collection.st) IN
         IF index.sig # "none" THEN index
         ELSE IF collection.val.t = "list"
         THEN IF ~IsNumber(index.val) THEN Raise(index.st, "ForbiddenMagic")
              ELSE IF index.val.v < 0 \/ index.val.v >= Len(index.st.heap[collection.val.v])
              THEN Raise(index.st, "ForbiddenMagic")
              ELSE Ok(index.st, index.st.heap[collection.val.v][index.val.v + 1])
         ELSE IF collection.val.t = "str"
         THEN IF ~IsNumber(index.val) THEN Raise(index.st, "ForbiddenMagic")
              ELSE Raise(index.st, "Unmodelled")
         ELSE Raise(index.st, "ForbiddenMagic")

\* execute_block's `for stmt in statements` loop
RECURSIVE execute_statements(_, _, _, _)
execute_statements(statements, i, st, result) ==
    IF i > Len(statements) THEN Ok(st, result)
    ELSE LET o == execute(statements[i], st) IN
         IF o.sig # "none" THEN o
         ELSE execute_statements(statements, i + 1, o.st, o.val)

\* The log keeps how each block was left: the environment that was current
\* when it was entered and the one that is current once it is left, the names
\* bound in its environment, those of them that were visible where the block
\* was entered (shadowed), and those whose lookup from the environment the
\* block was entered from, or from the parent of the block's environment,
\* differs from what it was at the entry (leaked).
block_left(st, env, previous, o, current) ==
    LET introduced == DOMAIN o.st.envs[env].values
        event == [ev |-> "scope", how |-> o.sig, env |-> env, introduced |-> introduced,
                  previous |-> previous, current |-> current,
                  shadowed |-> {n \in introduced : Env_get(st, previous, n).sig = "none"},
                  leaked |-> {n \in introduced :
                                 \E e \in {previous, st.envs[env].parent} \ {0} :
                                     Env_get(o.st, e, n) # Env_get(st, e, n)}]
    IN [o EXCEPT !.st = Logged([@ EXCEPT !.cur = current], event)]

\* A slip: execute_block without the try/finally, so that a block left by an
\* exception leaves its environment current
execute_block_no_finally(statements, env, st) ==
    LET o == execute_statements(statements, 1, [st EXCEPT !.cur = env], None)
    IN block_left(st, env, st.cur, o, IF o.sig = "none" THEN st.cur ELSE o.st.cur)

execute_block(statements, env, st) ==
    block_left(st, env, st.cur, execute_statements(statements, 1, [st EXCEPT !.cur = env], None), st.cur)

\* execute_block(statements, Environment(self.environment))
execute_in_child(statements, st) ==
    execute_block(statements, Len(st.envs) + 1, AllocEnv(st, st.cur))

\* The log keeps each declaration's define() call: the scope, the name, whether
\* the scope flagged the name constant before the call, and the value the
\* scope bound to the name before and after it.
Declared(st, e, name, value, is_const) ==
    LET after == Env_define(st, e, name, value, is_const) IN
    Logged(after, [ev |-> "define", name |-> name, env |-> e, is_const |-> is_const,
                   sealed |-> name \in st.envs[e].constants,
                   bound |-> name \in DOMAIN st.envs[e].values,
                   was |-> IF name \in DOMAIN st.envs[e].values THEN st.envs[e].values[name] ELSE None,
                   now |-> after.envs[e].values[name]])

visit_VarDecl(node, st) ==
    LET value == evaluate(node.value, st) IN
    IF value.sig # "none" THEN value
    ELSE Ok(Declared(value.st, value.st.cur, node.name, value.val, node.is_const), value.val)

\* The log keeps each assign() and delete() call: the name, the value, the
\* environments on the chain that flag the name constant, how the call ended,
\* and the environments as they were before and after it.
RECURSIVE ConstantHolders(_, _, _)
ConstantHolders(st, e, name) ==
    (IF name \in st.envs[e].constants THEN {e} ELSE {})
        \cup (IF st.envs[e].parent # 0 THEN ConstantHolders(st, st.envs[e].parent, name) ELSE {})

visit_VarAssign(node, st) ==
    LET value == evaluate(node.value, st) IN
    IF value.sig # "none" THEN value
    ELSE LET a == Env_assign(value.st, value.st.cur, node.name, value.val)
             event == [ev |-> "assign", name |-> node.name, sig |-> a.sig, env |-> value.st.cur,
                       holders |-> ConstantHolders(value.st, value.st.cur, node.name),
                       unchanged |-> a.st.envs = value.st.envs, value |-> value.val,
                       before |-> value.st.envs, after |-> a.st.envs]
         IN IF a.sig # "none" THEN Raise(Logged(a.st, event), a.sig)
            ELSE Ok(Logged(a.st, event), value.val)

visit_IndexAssign(node, st) ==
    LET collection == evaluate(node.collection, st) IN
    IF collection.sig # "none" THEN collection
    ELSE LET index == evaluate(node.index, collection.st) IN
         IF index.sig # "none" THEN index
         ELSE LET value == evaluate(node.value, index.st) IN
              IF value.sig # "none" THEN value
              ELSE IF collection.val.t = "list"
              THEN LET n == Len(value.st.heap[collection.val.v])
                       i == index.val.v
                   IN IF ~IsNumber(index.val) THEN Raise(value.st, "ForbiddenMagic")
                      \* Python's list.__setitem__: a negative index counts from the end
                      ELSE IF i < -n \/ i >= n THEN Raise(value.st, "IndexError")
                      ELSE Ok([value.st EXCEPT
                                  !.heap[collection.val.v][(IF i < 0 THEN i + n ELSE i) + 1] =
                                      value.val],
                              value.val)
              ELSE Raise(value.st, "ForbiddenMagic")

visit_VarDelete(node, st) ==
    LET d == Env_delete(st, st.cur, node.name)
        event == [ev |-> "delete", name |-> node.name, sig |-> d.sig, env |-> st.cur,
                  holders |-> ConstantHolders(st, st.cur, node.name),
                  unchanged |-> d.st.envs = st.envs, value |-> None,
                  before |-> st.envs, after |-> d.st.envs]
    IN IF d.sig # "none" THEN Raise(Logged(d.st, event), d.sig)
       ELSE Ok(Logged(d.st, event), None)

\* SlayFunction(node, self.environment)
SlayFunction(declaration, closure) ==
    [name |-> declaration.name, params |-> declaration.params,
     body |-> declaration.body, closure |-> closure]

\* A slip: the function captures the global environment, not the current one
visit_SpellDecl_globals(node, st) ==
    LET id == Len(st.funcs) + 1
        st1 == [st EXCEPT !.funcs = Append(@, SlayFunction(node, 1))]
    IN Ok(Env_define(st1, st1.cur, node.name, FuncV(id), FALSE), FuncV(id))

visit_SpellDecl(node, st) ==
    LET id == Len(st.funcs) + 1
        st1 == [st EXCEPT !.funcs = Append(@, SlayFunction(node, st.cur))]
    IN Ok(Declared(st1, st1.cur, node.name, FuncV(id), FALSE), FuncV(id))

visit_CastStmt(node, st) ==
    IF node.has_value
    THEN LET value == evaluate(node.value, st) IN
         IF value.sig # "none" THEN value
         ELSE [st |-> value.st, val |-> value.val, sig |-> "SpellReturn"]
    ELSE [st |-> st, val |-> None, sig |-> "SpellReturn"]

\* visit_IfStmt's `for elif_cond, elif_body in node.elif_branches` and what follows
RECURSIVE if_rest(_, _, _)
if_rest(node, i, st) ==
    IF i > Len(node.elif_branches)
    THEN IF node.has_else THEN execute_in_child(node.else_branch, st) ELSE Ok(st, None)
    ELSE LET c == evaluate(node.elif_branches[i].cond, st) IN
         IF c.sig # "none" THEN c
         ELSE IF is_truthy(c.st, c.val) THEN execute_in_child(node.elif_branches[i].body, c.st)
         ELSE if_rest(node, i + 1, c.st)

\* A slip: the branch runs in the current environment, not in a child of it
visit_IfStmt_same_env(node, st) ==
    LET c == evaluate(node.condition, st) IN
    IF c.sig # "none" THEN c
    ELSE IF is_truthy(c.st, c.val) THEN execute_block(node.then_branch, c.st.cur, c.st)
    ELSE if_rest(node, 1, c.st)

visit_IfStmt(node, st) ==
    LET c == evaluate(node.condition, st) IN
    IF c.sig # "none" THEN c
    ELSE IF is_truthy(c.st, c.val) THEN execute_in_child(node.then_branch, c.st)
    ELSE if_rest(node, 1, c.st)

\* A slip: a break leaves the loop and goes on to the loop around it
RECURSIVE while_loop_break_outward(_, _, _, _)
while_loop_break_outward(node, loop, st, result) ==
    LET c == evaluate(node.condition, st) IN
    IF c.sig # "none" THEN c
    ELSE LET truthy == is_truthy(c.st, c.val)
             st1 == Logged(c.st, [ev |-> "cond", loop |-> loop, truthy |-> truthy])
         IN IF truthy THEN Ok(st1, result)
            ELSE IF st1.fuel = 0 THEN Raise(st1, "Hung")
            ELSE LET st2 == Logged([st1 EXCEPT !.fuel = @ - 1], [ev |-> "body", loop |-> loop])
                     o == execute_in_child(node.body, st2)
                     ended == Logged(o.st, [ev |-> "end", loop |-> loop, how |-> o.sig])
                 IN IF o.sig = "PatrolContinue"
                    THEN while_loop_break_outward(node, loop, ended, result)
                    ELSE IF o.sig # "none" THEN [o EXCEPT !.st = ended]
                    ELSE while_loop_break_outward(node, loop, ended, o.val)

\* visit_WhileStmt's `while not self.is_truthy(self.evaluate(node.condition))`
\* loop.  The log keeps, under the loop's number, each evaluation of the
\* condition, each start of the body and how each execution of the body ended.
RECURSIVE while_loop(_, _, _, _)
while_loop(node, loop, st, result) ==
    LET c == evaluate(node.condition, st) IN
    IF c.sig # "none" THEN c
    ELSE LET truthy == is_truthy(c.st, c.val)
             st1 == Logged(c.st, [ev |-> "cond", loop |-> loop, truthy |-> truthy])
         IN IF truthy THEN Ok(st1, result)
            ELSE IF st1.fuel = 0 THEN Raise(st1, "Hung")
            ELSE LET st2 == Logged([st1 EXCEPT !.fuel = @ - 1], [ev |-> "body", loop |-> loop])
                     o == execute_in_child(node.body, st2)
                     ended == Logged(o.st, [ev |-> "end", loop |-> loop, how |-> o.sig])
                 IN IF o.sig = "SlayerInterrupt" THEN Ok(ended, result)
                    ELSE IF o.sig = "PatrolContinue" THEN while_loop(node, loop, ended, result)
                    ELSE IF o.sig # "none" THEN [o EXCEPT !.st = ended]
                    ELSE while_loop(node, loop, ended, o.val)

\* A slip: the body runs before the condition is first evaluated
visit_WhileStmt_body_first(node, st) ==
    LET loop == st.nloops + 1
        st2 == Logged([st EXCEPT !.nloops = loop], [ev |-> "body", loop |-> loop])
        o == execute_in_child(node.body, st2)
        ended == Logged(o.st, [ev |-> "end", loop |-> loop, how |-> o.sig])
    IN IF o.sig = "SlayerInterrupt" THEN Ok(ended, None)
       ELSE IF o.sig = "PatrolContinue" THEN while_loop(node, loop, ended, None)
       ELSE IF o.sig # "none" THEN [o EXCEPT !.st = ended]
       ELSE while_loop(node, loop, ended, o.val)

visit_WhileStmt(node, st) ==
    while_loop(node, st.nloops + 1, [st EXCEPT !.nloops = @ + 1], None)

\* visit_ForStmt's `for item in iterable` loop over a list: Python's list
\* iterator keeps a position i and reads the list as it is at each step.
\* The log keeps, under the loop's number, each start of the body (the
\* position, the element, the environment the body runs in, what that
\* environment binds and the environments there were before it) and how each
\* execution of the body ended.
\* A slip: the loop variable is bound, and the body run, in the environment
\* the loop statement is executed in
RECURSIVE for_loop_same_env(_, _, _, _, _, _)
for_loop_same_env(node, loop, ref, i, st, result) ==
    IF i >= Len(st.heap[ref]) THEN Ok(st, result)
    ELSE IF st.fuel = 0 THEN Raise(st, "Hung")
    ELSE LET env == st.cur
             st1 == Env_define([st EXCEPT !.fuel = @ - 1], env,
                               node.variable, st.heap[ref][i + 1], FALSE)
             st2 == Logged(st1, [ev |-> "iter", loop |-> loop, index |-> i, env |-> env,
                                 variable |-> node.variable, item |-> st.heap[ref][i + 1],
                                 values |-> st1.envs[env].values, parent |-> st1.envs[env].parent,
                                 from |-> st.cur, existing |-> DOMAIN st.envs])
             o == execute_block(node.body, env, st2)
             ended == Logged(o.st, [ev |-> "iter_end", loop |-> loop, how |-> o.sig])
         IN IF o.sig = "SlayerInterrupt" THEN Ok(ended, result)
            ELSE IF o.sig = "PatrolContinue"
            THEN for_loop_same_env(node, loop, ref, i + 1, ended, result)
            ELSE IF o.sig # "none" THEN [o EXCEPT !.st = ended]
            ELSE for_loop_same_env(node, loop, ref, i + 1, ended, o.val)

RECURSIVE for_loop(_, _, _, _, _, _)
for_loop(node, loop, ref, i, st, result) ==
    IF i >= Len(st.heap[ref]) THEN Ok(st, result)
    ELSE IF st.fuel = 0 THEN Raise(st, "Hung")
    ELSE LET env == Len(st.envs) + 1
             st1 == Env_define(AllocEnv([st EXCEPT !.fuel = @ - 1], st.cur), env,
                               node.variable, st.heap[ref][i + 1], FALSE)
             st2 == Logged(st1, [ev |-> "iter", loop |-> loop, index |-> i, env |-> env,
                                 variable |-> node.variable, item |-> st.heap[ref][i + 1],
                                 values |-> st1.envs[env].values, parent |-> st1.envs[env].parent,
                                 from |-> st.cur, existing |-> DOMAIN st.envs])
             o == execute_block(node.body, env, st2)
             ended == Logged(o.st, [ev |-> "iter_end", loop |-> loop, how |-> o.sig])
         IN IF o.sig = "SlayerInterrupt" THEN Ok(ended, result)
            ELSE IF o.sig = "PatrolContinue" THEN for_loop(node, loop, ref, i + 1, ended, result)
            ELSE IF o.sig # "none" THEN [o EXCEPT !.st = ended]
            ELSE for_loop(node, loop, ref, i + 1, ended, o.val)

\* The log keeps the start of each loop over a list: the list and its length
visit_ForStmt(node, st) ==
    LET iterable == evaluate(node.iterable, st) IN
    IF iterable.sig # "none" THEN iterable
    ELSE IF iterable.val.t = "list"
    THEN for_loop(node, iterable.st.nloops + 1, iterable.val.v, 0,
                  Logged([iterable.st EXCEPT !.nloops = @ + 1],
                         [ev |-> "hunt", loop |-> iterable.st.nloops + 1, ref |-> iterable.val.v,
                          length |-> Len(iterable.st.heap[iterable.val.v])]),
                  None)
    ELSE IF iterable.val.t = "str" THEN Raise(iterable.st, "Unmodelled")
    ELSE Raise(iterable.st, "ForbiddenMagic")

\* The log keeps each break and continue statement executed
visit_BreakStmt(node, st) ==
    Raise(Logged(st, [ev |-> "signal", how |-> "SlayerInterrupt"]), "SlayerInterrupt")

visit_ContinueStmt(node, st) ==
    Raise(Logged(st, [ev |-> "signal", how |-> "PatrolContinue"]), "PatrolContinue")

visit_ExprStmt(node, st) == evaluate(node.expression, st)

\* `for param, arg in zip(self.declaration.params, arguments): env.define(param, arg)`
RECURSIVE define_params(_, _, _, _, _)
define_params(st, env, params, arguments, i) ==
    IF i > Len(params) \/ i > Len(arguments) THEN st
    ELSE define_params(Env_define(st, env, params[i], arguments[i], FALSE),
                       env, params, arguments, i + 1)

\* The log keeps the start of each invocation: the function, the environment
\* made for it with its parent and what it binds, the environment the function
\* captured, the caller's environment, and the environments there were before.
Invoked(st, f, arguments, env, from, existing) ==
    Logged(st, [ev |-> "invoke", name |-> f.name, params |-> f.params, arguments |-> arguments,
                env |-> env, parent |-> st.envs[env].parent, values |-> st.envs[env].values,
                closure |-> f.closure, from |-> from, existing |-> existing])

\* A slip: the invocation's environment is a child of the caller's current
\* environment, not of the closure
SlayFunction_call_dynamic(f, arguments, st) ==
    LET env == Len(st.envs) + 1
    IN execute_block(f.body, env,
                     Invoked(define_params(AllocEnv(st, st.cur), env, f.params, arguments, 1),
                             f, arguments, env, st.cur, DOMAIN st.envs))

SlayFunction_call(f, arguments, st) ==
    LET env == Len(st.envs) + 1
    IN execute_block(f.body, env,
                     Invoked(define_params(AllocEnv(st, f.closure), env, f.params, arguments, 1),
                             f, arguments, env, st.cur, DOMAIN st.envs))

\* The log keeps each call that came back: the function's name, whether a
\* SpellReturn ended it, and the value the call expression took.
\* The built-in functions (src/slayscript/builtins.py): of the names that
\* register_builtins() defines, the model has append and remove.  A BuiltinFunction object
\* is the value BuiltinV(name).
BuiltinV(name) == [t |-> "builtin", v |-> name]
BuiltinArity == ("append" :> 2) @@ ("remove" :> 2)

builtin_append(st, args) ==
    IF Len(args) # 2 THEN Raise(st, "ForbiddenMagic")
    ELSE IF args[1].t # "list" THEN Raise(st, "ForbiddenMagic")
    ELSE Ok([st EXCEPT !.heap[args[1].v] = Append(@, args[2])], None)

\* list.remove(item): the first element equal to item goes, and ValueError is
\* raised when there is none
builtin_remove(st, args) ==
    IF Len(args) # 2 THEN Raise(st, "ForbiddenMagic")
    ELSE IF args[1].t # "list" THEN Raise(st, "ForbiddenMagic")
    ELSE LET items == st.heap[args[1].v]
             found == {k \in DOMAIN items : PyEq(st, items[k], args[2], 2)}
         IN IF found = {} THEN Raise(st, "ValueError")
            ELSE LET first == CHOOSE k \in found : \A other \in found : k <= other
                 IN Ok([st EXCEPT !.heap[args[1].v] =
                           [k \in 1..(Len(items) - 1) |-> IF k < first THEN items[k] ELSE items[k + 1]]],
                       None)

\* BuiltinFunction.call(): self.func(interpreter, arguments)
BuiltinFunction_call(name, args, st) ==
    CASE name = "append" -> builtin_append(st, args)
      [] name = "remove" -> builtin_remove(st, args)

register_builtins(st) ==
    Env_define(Env_define(st, 1, "append", BuiltinV("append"), FALSE),
               1, "remove", BuiltinV("remove"), FALSE)

visit_CallExpr(node, st) ==
    LET callee == evaluate(node.callee, st) IN
    IF callee.sig # "none" THEN callee
    ELSE LET arguments == evaluate_all(node.arguments, 1, callee.st, <<>>) IN
         IF arguments.sig # "none" THEN arguments
         ELSE IF callee.val.t = "builtin"
         THEN (IF Len(arguments.val) # BuiltinArity[callee.val.v]
               THEN Raise(arguments.st, "ForbiddenMagic")
               ELSE BuiltinFunction_call(callee.val.v, arguments.val, arguments.st))
         ELSE IF callee.val.t # "func" THEN Raise(arguments.st, "ForbiddenMagic")
         ELSE LET f == arguments.st.funcs[callee.val.v] IN
              IF Len(arguments.val) # Len(f.params) THEN Raise(arguments.st, "ForbiddenMagic")
              ELSE IF arguments.st.fuel = 0 THEN Raise(arguments.st, "Hung")
              ELSE LET o == SlayFunction_call(f, arguments.val,
                                [arguments.st EXCEPT !.fuel = @ - 1, !.ncalls = @ + 1])
                   IN IF o.sig \in {"none", "SpellReturn"}
                      THEN Ok(Logged(o.st, [ev |-> "call", name |-> f.name,
                                            by_cast |-> o.sig = "SpellReturn", val |-> o.val]),
                              o.val)
                      ELSE o

execute(node, st) ==
    CASE node.type = "Literal" -> visit_Literal(node, st)
      [] node.type = "Identifier" -> visit_Identifier(node, st)
      [] node.type = "BinaryOp" -> visit_BinaryOp(node, st)
      [] node.type = "UnaryOp" -> visit_UnaryOp(node, st)
      [] node.type = "TomeExpr" -> visit_TomeExpr(node, st)
      [] node.type = "IndexExpr" -> visit_IndexExpr(node, st)
      [] node.type = "CallExpr" -> visit_CallExpr(node, st)
      [] node.type = "VarDecl" -> visit_VarDecl(node, st)
      [] node.type = "VarAssign" -> visit_VarAssign(node, st)
      [] node.type = "IndexAssign" -> visit_IndexAssign(node, st)
      [] node.type = "VarDelete" -> visit_VarDelete(node, st)
      [] node.type = "SpellDecl" -> visit_SpellDecl(node, st)
      [] node.type = "CastStmt" -> visit_CastStmt(node, st)
      [] node.type = "IfStmt" -> visit_IfStmt(node, st)
      [] node.type = "WhileStmt" -> visit_WhileStmt(node, st)
      [] node.type = "ForStmt" -> visit_ForStmt(node, st)
      [] node.type = "BreakStmt" -> visit_BreakStmt(node, st)
      [] node.type = "ContinueStmt" -> visit_ContinueStmt(node, st)
      [] node.type = "ExprStmt" -> visit_ExprStmt(node, st)
      [] OTHER -> Raise(st, "ForbiddenMagic")

\* Interpreter(): a global environment, which is the current one
NewInterpreter ==
    [envs |-> <<NewEnvironment(0)>>, cur |-> 1, funcs |-> <<>>, heap |-> <<>>,
     fuel |-> 0, ncalls |-> 0, nloops |-> 0, log |-> <<>>]

(***************************************************************************)
(* Inputs.  Each source is given as the token list Lexer.tokenize()        *)
(* returns for the text in the comment above it.  A suite is the set of    *)
(* sources one session draws from.                                         *)
(***************************************************************************)
\* conjure a as tome [1, 2, 3]
SrcListA == <<Tok("CONJURE"), ID("a"), Tok("AS"), Tok("TOME"), Tok("LBRACKET"), INT(1),
    Tok("COMMA"), INT(2), Tok("COMMA"), INT(3), Tok("RBRACKET"), EOF>>

\* conjure b as a
SrcAliasB == <<Tok("CONJURE"), ID("b"), Tok("AS"), ID("a"), EOF>>

\* transmute b[0] as 99
SrcSetB0 == <<Tok("TRANSMUTE"), ID("b"), Tok("LBRACKET"), INT(0), Tok("RBRACKET"), Tok("AS"),
    INT(99), EOF>>

\* transmute b[2] as 7
SrcSetB2 == <<Tok("TRANSMUTE"), ID("b"), Tok("LBRACKET"), INT(2), Tok("RBRACKET"), Tok("AS"),
    INT(7), EOF>>

\* transmute (b[0]) as 99
SrcSetB0Paren == <<Tok("TRANSMUTE"), Tok("LPAREN"), ID("b"), Tok("LBRACKET"), INT(0),
    Tok("RBRACKET"), Tok("RPAREN"), Tok("AS"), INT(99), EOF>>

\* transmute (b[2]) as 7
SrcSetB2Paren == <<Tok("TRANSMUTE"), Tok("LPAREN"), ID("b"), Tok("LBRACKET"), INT(2),
    Tok("RBRACKET"), Tok("RPAREN"), Tok("AS"), INT(7), EOF>>

\* a[0]
SrcReadA0 == <<ID("a"), Tok("LBRACKET"), INT(0), Tok("RBRACKET"), EOF>>

\* a[2]
SrcReadA2 == <<ID("a"), Tok("LBRACKET"), INT(2), Tok("RBRACKET"), EOF>>

AliasSources == {SrcListA, SrcAliasB, SrcSetB0, SrcSetB2, SrcSetB0Paren, SrcSetB2Paren,
    SrcReadA0, SrcReadA2}

\* const prophecy K as 1
SrcConstK == <<Tok("CONST"), Tok("PROPHECY"), ID("K"), Tok("AS"), INT(1), EOF>>

\* transmute K as 2
SrcSetK == <<Tok("TRANSMUTE"), ID("K"), Tok("AS"), INT(2), EOF>>

\* vanquish K
SrcDelK == <<Tok("VANQUISH"), ID("K"), EOF>>

\* prophecy reveals true { transmute K as 2 }
SrcIfSetK == <<Tok("PROPHECY"), Tok("REVEALS"), Tok("TRUE"), Tok("LBRACE"), Tok("TRANSMUTE"),
    ID("K"), Tok("AS"), INT(2), Tok("RBRACE"), EOF>>

\* patrol until false { vanquish K }
SrcWhileDelK == <<Tok("PATROL"), Tok("UNTIL"), Tok("FALSE"), Tok("LBRACE"), Tok("VANQUISH"),
    ID("K"), Tok("RBRACE"), EOF>>

\* hunt each i in [1, 2] { prophecy reveals i is 2 { transmute K as i } }
SrcForSetK == <<Tok("HUNT"), Tok("EACH"), ID("i"), Tok("IN"), Tok("LBRACKET"), INT(1),
    Tok("COMMA"), INT(2), Tok("RBRACKET"), Tok("LBRACE"), Tok("PROPHECY"), Tok("REVEALS"),
    ID("i"), Tok("IS"), INT(2), Tok("LBRACE"), Tok("TRANSMUTE"), ID("K"), Tok("AS"), ID("i"),
    Tok("RBRACE"), Tok("RBRACE"), EOF>>

\* spell f() { patrol until false { prophecy reveals true { transmute K as 2 } } }
SrcSpellSetK == <<Tok("SPELL"), ID("f"), Tok("LPAREN"), Tok("RPAREN"), Tok("LBRACE"),
    Tok("PATROL"), Tok("UNTIL"), Tok("FALSE"), Tok("LBRACE"), Tok("PROPHECY"), Tok("REVEALS"),
    Tok("TRUE"), Tok("LBRACE"), Tok("TRANSMUTE"), ID("K"), Tok("AS"), INT(2), Tok("RBRACE"),
    Tok("RBRACE"), Tok("RBRACE"), EOF>>

\* f()
SrcCallF == <<ID("f"), Tok("LPAREN"), Tok("RPAREN"), EOF>>

\* spell mk() {
\*   const prophecy C as 1
\*   spell t() { prophecy reveals true { vanquish C } }
\*   prophecy reveals C is 1 { cast t }
\*   transmute C as 2
\* }
SrcSpellConstC == <<Tok("SPELL"), ID("mk"), Tok("LPAREN"), Tok("RPAREN"), Tok("LBRACE"),
    Tok("CONST"), Tok("PROPHECY"), ID("C"), Tok("AS"), INT(1), Tok("SPELL"), ID("t"),
    Tok("LPAREN"), Tok("RPAREN"), Tok("LBRACE"), Tok("PROPHECY"), Tok("REVEALS"), Tok("TRUE"),
    Tok("LBRACE"), Tok("VANQUISH"), ID("C"), Tok("RBRACE"), Tok("RBRACE"), Tok("PROPHECY"),
    Tok("REVEALS"), ID("C"), Tok("IS"), INT(1), Tok("LBRACE"), Tok("CAST"), ID("t"),
    Tok("RBRACE"), Tok("TRANSMUTE"), ID("C"), Tok("AS"), INT(2), Tok("RBRACE"), EOF>>

\* conjure t as mk()
SrcMakeT == <<Tok("CONJURE"), ID("t"), Tok("AS"), ID("mk"), Tok("LPAREN"), Tok("RPAREN"), EOF>>

\* t()
SrcCallT == <<ID("t"), Tok("LPAREN"), Tok("RPAREN"), EOF>>

\* conjure v as 1
SrcVarV == <<Tok("CONJURE"), ID("v"), Tok("AS"), INT(1), EOF>>

\* transmute v as 2
SrcSetV == <<Tok("TRANSMUTE"), ID("v"), Tok("AS"), INT(2), EOF>>

ConstSources == {SrcConstK, SrcSetK, SrcDelK, SrcIfSetK, SrcWhileDelK, SrcForSetK, SrcSpellSetK,
    SrcCallF, SrcSpellConstC, SrcMakeT, SrcCallT, SrcVarV, SrcSetV}

\* break
SrcBreak == <<Tok("BREAK"), EOF>>

\* continue
SrcContinue == <<Tok("CONTINUE"), EOF>>

\* cast 5
SrcCast5 == <<Tok("CAST"), INT(5), EOF>>

\* prophecy reveals true { break }
SrcIfBreak == <<Tok("PROPHECY"), Tok("REVEALS"), Tok("TRUE"), Tok("LBRACE"), Tok("BREAK"),
    Tok("RBRACE"), EOF>>

\* spell skip() { continue }
SrcSpellContinue == <<Tok("SPELL"), ID("skip"), Tok("LPAREN"), Tok("RPAREN"), Tok("LBRACE"),
    Tok("CONTINUE"), Tok("RBRACE"), EOF>>

\* skip()
SrcCallSkip == <<ID("skip"), Tok("LPAREN"), Tok("RPAREN"), EOF>>

\* patrol until false { break }
SrcLoopBreak == <<Tok("PATROL"), Tok("UNTIL"), Tok("FALSE"), Tok("LBRACE"), Tok("BREAK"),
    Tok("RBRACE"), EOF>>

\* conjure hits as 0
SrcHits == <<Tok("CONJURE"), ID("hits"), Tok("AS"), INT(0), EOF>>

\* spell touch() {
\*   transmute hits as hits + 1
\*   cast true
\* }
SrcSpellTouch == <<Tok("SPELL"), ID("touch"), Tok("LPAREN"), Tok("RPAREN"), Tok("LBRACE"),
    Tok("TRANSMUTE"), ID("hits"), Tok("AS"), ID("hits"), Tok("PLUS"), INT(1), Tok("CAST"),
    Tok("TRUE"), Tok("RBRACE"), EOF>>

\* false and touch()
SrcFalseAnd == <<Tok("FALSE"), Tok("AND"), ID("touch"), Tok("LPAREN"), Tok("RPAREN"), EOF>>

\* true or touch()
SrcTrueOr == <<Tok("TRUE"), Tok("OR"), ID("touch"), Tok("LPAREN"), Tok("RPAREN"), EOF>>

\* true and touch()
SrcTrueAnd == <<Tok("TRUE"), Tok("AND"), ID("touch"), Tok("LPAREN"), Tok("RPAREN"), EOF>>

\* false or touch()
SrcFalseOr == <<Tok("FALSE"), Tok("OR"), ID("touch"), Tok("LPAREN"), Tok("RPAREN"), EOF>>

\* 1 and 2
SrcAndValues == <<INT(1), Tok("AND"), INT(2), EOF>>

\* 0 or void
SrcOrValues == <<INT(0), Tok("OR"), Tok("VOID"), EOF>>

\* spell lastdecl() { conjure x as 5 }
SrcSpellDecl == <<Tok("SPELL"), ID("lastdecl"), Tok("LPAREN"), Tok("RPAREN"), Tok("LBRACE"),
    Tok("CONJURE"), ID("x"), Tok("AS"), INT(5), Tok("RBRACE"), EOF>>

\* lastdecl()
SrcCallDecl == <<ID("lastdecl"), Tok("LPAREN"), Tok("RPAREN"), EOF>>

\* spell lastexpr() { hits + 1 }
SrcSpellExpr == <<Tok("SPELL"), ID("lastexpr"), Tok("LPAREN"), Tok("RPAREN"), Tok("LBRACE"),
    ID("hits"), Tok("PLUS"), INT(1), Tok("RBRACE"), EOF>>

\* lastexpr()
SrcCallExpr == <<ID("lastexpr"), Tok("LPAREN"), Tok("RPAREN"), EOF>>

\* spell lastblock() { prophecy reveals true { transmute hits as 7 } }
SrcSpellBlock == <<Tok("SPELL"), ID("lastblock"), Tok("LPAREN"), Tok("RPAREN"), Tok("LBRACE"),
    Tok("PROPHECY"), Tok("REVEALS"), Tok("TRUE"), Tok("LBRACE"), Tok("TRANSMUTE"), ID("hits"),
    Tok("AS"), INT(7), Tok("RBRACE"), Tok("RBRACE"), EOF>>

\* lastblock()
SrcCallBlock == <<ID("lastblock"), Tok("LPAREN"), Tok("RPAREN"), EOF>>

\* spell empty() { }
SrcSpellEmpty == <<Tok("SPELL"), ID("empty"), Tok("LPAREN"), Tok("RPAREN"), Tok("LBRACE"),
    Tok("RBRACE"), EOF>>

\* empty()
SrcCallEmpty == <<ID("empty"), Tok("LPAREN"), Tok("RPAREN"), EOF>>

\* spell seven() { cast 7
\*   8 }
SrcSpellCast == <<Tok("SPELL"), ID("seven"), Tok("LPAREN"), Tok("RPAREN"), Tok("LBRACE"),
    Tok("CAST"), INT(7), INT(8), Tok("RBRACE"), EOF>>

\* seven()
SrcCallCast == <<ID("seven"), Tok("LPAREN"), Tok("RPAREN"), EOF>>

CoreSources == {SrcBreak, SrcContinue, SrcCast5, SrcIfBreak, SrcSpellContinue, SrcCallSkip,
    SrcLoopBreak, SrcHits, SrcSpellTouch, SrcFalseAnd, SrcTrueOr, SrcTrueAnd, SrcFalseOr,
    SrcAndValues, SrcOrValues, SrcSpellDecl, SrcCallDecl, SrcSpellExpr, SrcCallExpr,
    SrcSpellBlock, SrcCallBlock, SrcSpellEmpty, SrcCallEmpty, SrcSpellCast, SrcCallCast}

\* spell make() {
\*   conjure c as 0
\*   spell bump() {
\*     transmute c as c + 1
\*     cast c
\*   }
\*   cast bump
\* }
SrcSpellMake == <<Tok("SPELL"), ID("make"), Tok("LPAREN"), Tok("RPAREN"), Tok("LBRACE"),
    Tok("CONJURE"), ID("c"), Tok("AS"), INT(0), Tok("SPELL"), ID("bump"), Tok("LPAREN"),
    Tok("RPAREN"), Tok("LBRACE"), Tok("TRANSMUTE"), ID("c"), Tok("AS"), ID("c"), Tok("PLUS"),
    INT(1), Tok("CAST"), ID("c"), Tok("RBRACE"), Tok("CAST"), ID("bump"), Tok("RBRACE"), EOF>>

\* conjure b as make()
SrcMakeB == <<Tok("CONJURE"), ID("b"), Tok("AS"), ID("make"), Tok("LPAREN"), Tok("RPAREN"),
    EOF>>

\* conjure d as make()
SrcMakeD == <<Tok("CONJURE"), ID("d"), Tok("AS"), ID("make"), Tok("LPAREN"), Tok("RPAREN"),
    EOF>>

\* b()
SrcCallB == <<ID("b"), Tok("LPAREN"), Tok("RPAREN"), EOF>>

\* d()
SrcCallD == <<ID("d"), Tok("LPAREN"), Tok("RPAREN"), EOF>>

ClosureSources == {SrcSpellMake, SrcMakeB, SrcMakeD, SrcCallB, SrcCallD}

\* conjure x as 1
SrcVarX == <<Tok("CONJURE"), ID("x"), Tok("AS"), INT(1), EOF>>

\* prophecy reveals x is 1 {
\*   conjure x as 99
\*   conjure y as 3
\* }
SrcIfShadow == <<Tok("PROPHECY"), Tok("REVEALS"), ID("x"), Tok("IS"), INT(1), Tok("LBRACE"),
    Tok("CONJURE"), ID("x"), Tok("AS"), INT(99), Tok("CONJURE"), ID("y"), Tok("AS"), INT(3),
    Tok("RBRACE"), EOF>>

\* prophecy reveals false { conjure y as 1 } otherwise prophecy true { conjure y as 4 } fate decrees { conjure y as 5 }
SrcElifElse == <<Tok("PROPHECY"), Tok("REVEALS"), Tok("FALSE"), Tok("LBRACE"), Tok("CONJURE"),
    ID("y"), Tok("AS"), INT(1), Tok("RBRACE"), Tok("OTHERWISE"), Tok("PROPHECY"), Tok("TRUE"),
    Tok("LBRACE"), Tok("CONJURE"), ID("y"), Tok("AS"), INT(4), Tok("RBRACE"), Tok("FATE"),
    Tok("DECREES"), Tok("LBRACE"), Tok("CONJURE"), ID("y"), Tok("AS"), INT(5), Tok("RBRACE"),
    EOF>>

\* prophecy reveals false { } fate decrees {
\*   conjure x as 5
\*   conjure y as 5
\* }
SrcElse == <<Tok("PROPHECY"), Tok("REVEALS"), Tok("FALSE"), Tok("LBRACE"), Tok("RBRACE"),
    Tok("FATE"), Tok("DECREES"), Tok("LBRACE"), Tok("CONJURE"), ID("x"), Tok("AS"), INT(5),
    Tok("CONJURE"), ID("y"), Tok("AS"), INT(5), Tok("RBRACE"), EOF>>

\* patrol until false {
\*   conjure y as 3
\*   conjure x as 98
\*   break
\* }
SrcWhileBreak == <<Tok("PATROL"), Tok("UNTIL"), Tok("FALSE"), Tok("LBRACE"), Tok("CONJURE"),
    ID("y"), Tok("AS"), INT(3), Tok("CONJURE"), ID("x"), Tok("AS"), INT(98), Tok("BREAK"),
    Tok("RBRACE"), EOF>>

\* conjure n as 0
\* patrol until n atleast 2 {
\*   transmute n as n + 1
\*   conjure y as n
\*   continue
\* }
SrcWhileContinue == <<Tok("CONJURE"), ID("n"), Tok("AS"), INT(0), NL, Tok("PATROL"),
    Tok("UNTIL"), ID("n"), Tok("ATLEAST"), INT(2), Tok("LBRACE"), Tok("TRANSMUTE"), ID("n"),
    Tok("AS"), ID("n"), Tok("PLUS"), INT(1), Tok("CONJURE"), ID("y"), Tok("AS"), ID("n"),
    Tok("CONTINUE"), Tok("RBRACE"), EOF>>

\* hunt each i in [1, 2] {
\*   conjure y as i
\*   conjure x as i
\* }
SrcFor == <<Tok("HUNT"), Tok("EACH"), ID("i"), Tok("IN"), Tok("LBRACKET"), INT(1), Tok("COMMA"),
    INT(2), Tok("RBRACKET"), Tok("LBRACE"), Tok("CONJURE"), ID("y"), Tok("AS"), ID("i"),
    Tok("CONJURE"), ID("x"), Tok("AS"), ID("i"), Tok("RBRACE"), EOF>>

\* spell f(p) {
\*   conjure y as 4
\*   conjure x as 97
\*   cast y + p
\* }
SrcSpellLocal == <<Tok("SPELL"), ID("f"), Tok("LPAREN"), ID("p"), Tok("RPAREN"), Tok("LBRACE"),
    Tok("CONJURE"), ID("y"), Tok("AS"), INT(4), Tok("CONJURE"), ID("x"), Tok("AS"), INT(97),
    Tok("CAST"), ID("y"), Tok("PLUS"), ID("p"), Tok("RBRACE"), EOF>>

\* f(1)
SrcCallLocal == <<ID("f"), Tok("LPAREN"), INT(1), Tok("RPAREN"), EOF>>

\* spell g() {
\*   conjure x as 10
\*   prophecy reveals true {
\*     conjure x as 11
\*     conjure y as 1
\*   }
\*   cast x
\* }
SrcSpellNested == <<Tok("SPELL"), ID("g"), Tok("LPAREN"), Tok("RPAREN"), Tok("LBRACE"),
    Tok("CONJURE"), ID("x"), Tok("AS"), INT(10), Tok("PROPHECY"), Tok("REVEALS"), Tok("TRUE"),
    Tok("LBRACE"), Tok("CONJURE"), ID("x"), Tok("AS"), INT(11), Tok("CONJURE"), ID("y"),
    Tok("AS"), INT(1), Tok("RBRACE"), Tok("CAST"), ID("x"), Tok("RBRACE"), EOF>>

\* g()
SrcCallNested == <<ID("g"), Tok("LPAREN"), Tok("RPAREN"), EOF>>

\* spell h() {
\*   prophecy reveals true { conjure y as 1 }
\*   cast y
\* }
SrcSpellLeak == <<Tok("SPELL"), ID("h"), Tok("LPAREN"), Tok("RPAREN"), Tok("LBRACE"),
    Tok("PROPHECY"), Tok("REVEALS"), Tok("TRUE"), Tok("LBRACE"), Tok("CONJURE"), ID("y"),
    Tok("AS"), INT(1), Tok("RBRACE"), Tok("CAST"), ID("y"), Tok("RBRACE"), EOF>>

\* h()
SrcCallLeak == <<ID("h"), Tok("LPAREN"), Tok("RPAREN"), EOF>>

\* y
SrcReadY == <<ID("y"), EOF>>

\* x
SrcReadX == <<ID("x"), EOF>>

\* i
SrcReadI == <<ID("i"), EOF>>

ScopeSources == {SrcVarX, SrcIfShadow, SrcElifElse, SrcElse, SrcWhileBreak, SrcWhileContinue,
    SrcFor, SrcSpellLocal, SrcCallLocal, SrcSpellNested, SrcCallNested, SrcSpellLeak,
    SrcCallLeak, SrcReadY, SrcReadX, SrcReadI}

\* conjure n as 0
SrcVarN == <<Tok("CONJURE"), ID("n"), Tok("AS"), INT(0), EOF>>

\* patrol until n atleast 3 { transmute n as n + 1 }
SrcCount3 == <<Tok("PATROL"), Tok("UNTIL"), ID("n"), Tok("ATLEAST"), INT(3), Tok("LBRACE"),
    Tok("TRANSMUTE"), ID("n"), Tok("AS"), ID("n"), Tok("PLUS"), INT(1), Tok("RBRACE"), EOF>>

\* patrol until n atleast 2 {
\*   transmute n as n + 1
\*   continue
\*   transmute n as 100
\* }
SrcCountContinue == <<Tok("PATROL"), Tok("UNTIL"), ID("n"), Tok("ATLEAST"), INT(2),
    Tok("LBRACE"), Tok("TRANSMUTE"), ID("n"), Tok("AS"), ID("n"), Tok("PLUS"), INT(1),
    Tok("CONTINUE"), Tok("TRANSMUTE"), ID("n"), Tok("AS"), INT(100), Tok("RBRACE"), EOF>>

\* patrol until true { transmute n as 50 }
SrcNever == <<Tok("PATROL"), Tok("UNTIL"), Tok("TRUE"), Tok("LBRACE"), Tok("TRANSMUTE"),
    ID("n"), Tok("AS"), INT(50), Tok("RBRACE"), EOF>>

\* patrol until n atleast 4 {
\*   transmute n as n + 1
\*   prophecy reveals n is 2 { break }
\* }
SrcBreakAt2 == <<Tok("PATROL"), Tok("UNTIL"), ID("n"), Tok("ATLEAST"), INT(4), Tok("LBRACE"),
    Tok("TRANSMUTE"), ID("n"), Tok("AS"), ID("n"), Tok("PLUS"), INT(1), Tok("PROPHECY"),
    Tok("REVEALS"), ID("n"), Tok("IS"), INT(2), Tok("LBRACE"), Tok("BREAK"), Tok("RBRACE"),
    Tok("RBRACE"), EOF>>

\* conjure m as 0
\* patrol until m atleast 2 {
\*   transmute m as m + 1
\*   conjure k as 0
\*   patrol until k atleast m { transmute k as k + 1 }
\* }
SrcNested == <<Tok("CONJURE"), ID("m"), Tok("AS"), INT(0), NL, Tok("PATROL"), Tok("UNTIL"),
    ID("m"), Tok("ATLEAST"), INT(2), Tok("LBRACE"), Tok("TRANSMUTE"), ID("m"), Tok("AS"),
    ID("m"), Tok("PLUS"), INT(1), Tok("CONJURE"), ID("k"), Tok("AS"), INT(0), Tok("PATROL"),
    Tok("UNTIL"), ID("k"), Tok("ATLEAST"), ID("m"), Tok("LBRACE"), Tok("TRANSMUTE"), ID("k"),
    Tok("AS"), ID("k"), Tok("PLUS"), INT(1), Tok("RBRACE"), Tok("RBRACE"), EOF>>

\* patrol until false { transmute n as 1 - n }
SrcForever == <<Tok("PATROL"), Tok("UNTIL"), Tok("FALSE"), Tok("LBRACE"), Tok("TRANSMUTE"),
    ID("n"), Tok("AS"), INT(1), Tok("MINUS"), ID("n"), Tok("RBRACE"), EOF>>

\* patrol until missing { transmute n as 0 }
SrcCondError == <<Tok("PATROL"), Tok("UNTIL"), ID("missing"), Tok("LBRACE"), Tok("TRANSMUTE"),
    ID("n"), Tok("AS"), INT(0), Tok("RBRACE"), EOF>>

\* patrol until n atleast 9 {
\*   transmute n as n + 1
\*   missing
\* }
SrcBodyError == <<Tok("PATROL"), Tok("UNTIL"), ID("n"), Tok("ATLEAST"), INT(9), Tok("LBRACE"),
    Tok("TRANSMUTE"), ID("n"), Tok("AS"), ID("n"), Tok("PLUS"), INT(1), ID("missing"),
    Tok("RBRACE"), EOF>>

\* spell upto(k) {
\*   conjure j as 0
\*   patrol until j atleast k {
\*     transmute j as j + 1
\*     prophecy reveals j is 2 { cast j }
\*   }
\* }
SrcSpellLoop == <<Tok("SPELL"), ID("upto"), Tok("LPAREN"), ID("k"), Tok("RPAREN"),
    Tok("LBRACE"), Tok("CONJURE"), ID("j"), Tok("AS"), INT(0), Tok("PATROL"), Tok("UNTIL"),
    ID("j"), Tok("ATLEAST"), ID("k"), Tok("LBRACE"), Tok("TRANSMUTE"), ID("j"), Tok("AS"),
    ID("j"), Tok("PLUS"), INT(1), Tok("PROPHECY"), Tok("REVEALS"), ID("j"), Tok("IS"), INT(2),
    Tok("LBRACE"), Tok("CAST"), ID("j"), Tok("RBRACE"), Tok("RBRACE"), Tok("RBRACE"), EOF>>

\* upto(1)
SrcCallLoop1 == <<ID("upto"), Tok("LPAREN"), INT(1), Tok("RPAREN"), EOF>>

\* upto(3)
SrcCallLoop3 == <<ID("upto"), Tok("LPAREN"), INT(3), Tok("RPAREN"), EOF>>

LoopsSources == {SrcVarN, SrcCount3, SrcCountContinue, SrcNever, SrcBreakAt2, SrcNested,
    SrcForever, SrcCondError, SrcBodyError, SrcSpellLoop, SrcCallLoop1, SrcCallLoop3}

\* The sources `a op1 b op2 c` and `- a op b` over every binary operator
MaxOperand == 3
Operands == 2 .. MaxOperand
BinaryOperators ==
    {"PLUS", "MINUS", "STAR", "SLASH", "PERCENT", "POWER", "IS", "ISNT", "EXCEEDS", "UNDER",
     "ATLEAST", "ATMOST", "AND", "OR"}
ChainSources ==
    {<<INT(a), Tok(op1), INT(b), Tok(op2), INT(c), EOF>> :
        a \in Operands, b \in Operands, c \in Operands,
        op1 \in BinaryOperators, op2 \in BinaryOperators}
NegatedSources ==
    {<<Tok("MINUS"), INT(a), Tok(op), INT(b), EOF>> :
        a \in Operands, b \in Operands, op \in BinaryOperators}
PrecedenceSources == ChainSources \cup NegatedSources

\* const prophecy K as 1
SrcShadowConst == <<Tok("CONST"), Tok("PROPHECY"), ID("K"), Tok("AS"), INT(1), EOF>>

\* prophecy reveals true {
\*   conjure K as 5
\*   transmute K as 6
\* }
SrcShadowSet == <<Tok("PROPHECY"), Tok("REVEALS"), Tok("TRUE"), Tok("LBRACE"), Tok("CONJURE"),
    ID("K"), Tok("AS"), INT(5), Tok("TRANSMUTE"), ID("K"), Tok("AS"), INT(6), Tok("RBRACE"),
    EOF>>

\* prophecy reveals true {
\*   conjure K as 5
\*   vanquish K
\* }
SrcShadowDel == <<Tok("PROPHECY"), Tok("REVEALS"), Tok("TRUE"), Tok("LBRACE"), Tok("CONJURE"),
    ID("K"), Tok("AS"), INT(5), Tok("VANQUISH"), ID("K"), Tok("RBRACE"), EOF>>

\* spell f(K) {
\*   transmute K as 6
\*   cast K
\* }
SrcShadowParam == <<Tok("SPELL"), ID("f"), Tok("LPAREN"), ID("K"), Tok("RPAREN"), Tok("LBRACE"),
    Tok("TRANSMUTE"), ID("K"), Tok("AS"), INT(6), Tok("CAST"), ID("K"), Tok("RBRACE"), EOF>>

\* f(2)
SrcShadowCall == <<ID("f"), Tok("LPAREN"), INT(2), Tok("RPAREN"), EOF>>

\* K
SrcShadowRead == <<ID("K"), EOF>>

\* transmute K as 2
SrcShadowOuterSet == <<Tok("TRANSMUTE"), ID("K"), Tok("AS"), INT(2), EOF>>

\* prophecy reveals true { vanquish K }
SrcShadowOuterDel == <<Tok("PROPHECY"), Tok("REVEALS"), Tok("TRUE"), Tok("LBRACE"),
    Tok("VANQUISH"), ID("K"), Tok("RBRACE"), EOF>>

ShadowSources == {SrcShadowConst, SrcShadowSet, SrcShadowDel, SrcShadowParam, SrcShadowCall,
    SrcShadowRead, SrcShadowOuterSet, SrcShadowOuterDel}

\* conjure a as tome [1, 2, 3]
SrcIndexList == <<Tok("CONJURE"), ID("a"), Tok("AS"), Tok("TOME"), Tok("LBRACKET"), INT(1),
    Tok("COMMA"), INT(2), Tok("COMMA"), INT(3), Tok("RBRACKET"), EOF>>

\* transmute (a[3]) as 9
SrcIndexSetPast == <<Tok("TRANSMUTE"), Tok("LPAREN"), ID("a"), Tok("LBRACKET"), INT(3),
    Tok("RBRACKET"), Tok("RPAREN"), Tok("AS"), INT(9), EOF>>

\* transmute (a[-1]) as 9
SrcIndexSetLast == <<Tok("TRANSMUTE"), Tok("LPAREN"), ID("a"), Tok("LBRACKET"), Tok("MINUS"),
    INT(1), Tok("RBRACKET"), Tok("RPAREN"), Tok("AS"), INT(9), EOF>>

\* transmute (a[-4]) as 9
SrcIndexSetBefore == <<Tok("TRANSMUTE"), Tok("LPAREN"), ID("a"), Tok("LBRACKET"), Tok("MINUS"),
    INT(4), Tok("RBRACKET"), Tok("RPAREN"), Tok("AS"), INT(9), EOF>>

\* transmute (a[0]) as 9
SrcIndexSetFirst == <<Tok("TRANSMUTE"), Tok("LPAREN"), ID("a"), Tok("LBRACKET"), INT(0),
    Tok("RBRACKET"), Tok("RPAREN"), Tok("AS"), INT(9), EOF>>

\* a[3]
SrcIndexGetPast == <<ID("a"), Tok("LBRACKET"), INT(3), Tok("RBRACKET"), EOF>>

\* a[-1]
SrcIndexGetLast == <<ID("a"), Tok("LBRACKET"), Tok("MINUS"), INT(1), Tok("RBRACKET"), EOF>>

\* a[-4]
SrcIndexGetBefore == <<ID("a"), Tok("LBRACKET"), Tok("MINUS"), INT(4), Tok("RBRACKET"), EOF>>

\* a[0]
SrcIndexGetFirst == <<ID("a"), Tok("LBRACKET"), INT(0), Tok("RBRACKET"), EOF>>

\* a
SrcIndexShow == <<ID("a"), EOF>>

IndexSources == {SrcIndexList, SrcIndexSetPast, SrcIndexSetLast, SrcIndexSetBefore,
    SrcIndexSetFirst, SrcIndexGetPast, SrcIndexGetLast, SrcIndexGetBefore, SrcIndexGetFirst,
    SrcIndexShow}

\* The sources `a / b` and `a % b` over the numbers 0 .. MaxDividend and the
\* booleans, which check_numbers() takes for numbers
MaxDividend == 2
ZeroOperands == {INT(n) : n \in 0 .. MaxDividend} \cup {Tok("TRUE"), Tok("FALSE")}
ZeroSources ==
    {<<a, Tok(op), b, EOF>> : a \in ZeroOperands, b \in ZeroOperands, op \in {"SLASH", "PERCENT"}}

Sources(s) ==
    CASE s = "core" -> CoreSources
      [] s = "alias" -> AliasSources
      [] s = "const" -> ConstSources
      [] s = "precedence" -> PrecedenceSources
      [] s = "closure" -> ClosureSources
      [] s = "scope" -> ScopeSources
      [] s = "loops" -> LoopsSources
      [] s = "zero" -> ZeroSources
      [] s = "shadow" -> ShadowSources
      [] s = "index" -> IndexSources

(***************************************************************************)
(* The entry points (src/slayscript/main.py): run(source) processes one    *)
(* source with a fresh Interpreter and exits; repl() feeds one source      *)
(* after the other to the same Interpreter.                                *)
(***************************************************************************)
MaxUnits == 3          \* sources one REPL session reads
MaxClosureUnits == 6   \* the same, for the sessions of the closure suite
MaxFuel == 6           \* loop iterations and calls one source may take

UnitsAllowed == IF suite = "closure" THEN MaxClosureUnits ELSE MaxUnits

\* The subclasses of SlayScriptError (src/slayscript/errors.py)
SlayScriptError ==
    {"SpellMiscast", "DarkMagicDetected", "ForbiddenMagic", "UnknownIncantation",
     "ProphecyViolation", "SlayerInterrupt", "PatrolContinue", "SpellReturn"}

NoResult == [sig |-> "none", val |-> None]
NoProgram == PR(Program(<<>>), 1)
\* The console of repl(): its buffer, and of the last turn the buffer and the
\* global bindings it started with, the line it read, the sources it handed to
\* execute_repl_input() and what the last of them printed
NoConsole ==
    [buffer |-> <<>>, before |-> <<>>, globals |-> NoBindings, line |-> <<>>,
     units |-> <<>>, printed |-> ""]

\* What becomes of an exception that leaves the try block of run(), or the
\* call of execute_repl_input() in repl(): `except SlayScriptError` prints it,
\* and run() exits with status 1 while repl() goes on to the next input; any
\* other exception ends the process.
Handled(sig) ==
    /\ status' = IF sig \in SlayScriptError THEN (IF mode = "run" THEN "exit1" ELSE "input")
                 ELSE IF sig = "Hung" THEN "hung"
                 ELSE IF sig = "Unmodelled" THEN "unmodelled"
                 ELSE "crash"
    /\ diag' = IF sig \in SlayScriptError THEN sig ELSE diag

\* lexer.tokenize(): the next source arrives as its tokens.  The history of
\* the unit starts empty and its budget full; nothing is parsed yet.
Read ==
    /\ status = "input"
    /\ steps < UnitsAllowed
    /\ mode = "run" => steps = 0
    /\ tokens' \in Sources(suite)
    /\ status' = "lexed"
    /\ steps' = steps + 1
    /\ diag' = ""
    /\ ast' = NoProgram
    /\ pc' = 1
    /\ last' = NoResult
    /\ interp' = [interp EXCEPT !.fuel = MaxFuel, !.ncalls = 0, !.nloops = 0, !.log = <<>>]
    /\ UNCHANGED <<suite, mode, lexer, console>>

\* parser.parse()
ParseUnit ==
    /\ status = "lexed"
    /\ ast' = parse(tokens)
    /\ IF ast'.err THEN Handled("SpellMiscast") ELSE status' = "parsed" /\ diag' = diag
    /\ UNCHANGED <<suite, mode, tokens, pc, interp, last, steps, lexer, console>>

\* One turn of interpret()'s loop: result = self.execute(statement)
InterpretStatement ==
    /\ status = "parsed"
    /\ pc <= Len(ast.node.statements)
    /\ LET o == execute(ast.node.statements[pc], interp)
       IN /\ interp' = o.st
          /\ last' = [sig |-> o.sig, val |-> o.val]
          /\ IF o.sig = "none"
             THEN pc' = pc + 1 /\ status' = status /\ diag' = diag
             ELSE pc' = pc /\ Handled(o.sig)
    /\ UNCHANGED <<suite, mode, tokens, ast, steps, lexer, console>>

\* interpret() returns: run() falls off its end, repl() loops
FinishUnit ==
    /\ status = "parsed"
    /\ pc > Len(ast.node.statements)
    /\ status' = IF mode = "run" THEN "exit0" ELSE "input"
    /\ UNCHANGED <<suite, mode, tokens, ast, pc, interp, diag, last, steps, lexer, console>>

InitWith(s) ==
    /\ suite = s
    /\ mode \in {"run", "repl"}
    /\ tokens = <<EOF>>
    /\ ast = NoProgram
    /\ pc = 1
    /\ interp = NewInterpreter
    /\ status = "input"
    /\ diag = ""
    /\ last = NoResult
    /\ steps = 0
    /\ lexer = NewLexer(<<>>)
    /\ console = NoConsole

Init == InitWith("core")

Next == Read \/ ParseUnit \/ InterpretStatement \/ FinishUnit

Spec == Init /\ [][Next]_vars
SpecAlias == InitWith("alias") /\ [][Next]_vars
SpecConst == InitWith("const") /\ [][Next]_vars
SpecPrecedence == InitWith("precedence") /\ [][Next]_vars
SpecClosure == InitWith("closure") /\ [][Next]_vars
SpecScope == InitWith("scope") /\ [][Next]_vars
SpecLoops == InitWith("loops") /\ [][Next]_vars
SpecZero == InitWith("zero") /\ [][Next]_vars
SpecShadow == InitWith("shadow") /\ [][Next]_vars
SpecIndex == InitWith("index") /\ [][Next]_vars

(***************************************************************************)
(* The lexer on its own: tokenize() one turn of its loop at a time, on     *)
(* every source of at most MaxSourceLen characters of LexerAlphabet and on *)
(* the sources of LexerGallery.                                            *)
(***************************************************************************)
MaxSourceLen == 4
LexerAlphabet == {"x", "1", "²", "\n", "(", ")", "\"", "~"}

\* x\n  y "a\nbc" z
LexPositions ==
    <<"x", "\n", " ", " ", "y", " ", "\"", "a", "\n", "b", "c", "\"", " ", "z">>

\* [1,\n{2\n}]\n)\n(\n
LexNesting ==
    <<"[", "1", ",", "\n", "{", "2", "\n", "}", "]", "\n", ")", "\n", "(", "\n">>

\* f(1,\n 2)\n
LexCall ==
    <<"f", "(", "1", ",", "\n", " ", "2", ")", "\n">>

\* ~~ a\nb ~~ x ~ y\n
LexComment ==
    <<"~", "~", " ", "a", "\n", "b", " ", "~", "~", " ", "x", " ", "~", " ", "y", "\n">>

\* 'it' "q\\"\\n\\q"
LexEscapes ==
    <<"'", "i", "t", "'", " ", "\"", "q", "\\", "\"", "\\", "n", "\\", "q", "\"">>

\* 1.5 2. x_1
LexNumbers ==
    <<"1", ".", "5", " ", "2", ".", " ", "x", "_", "1">>

\* 2 ** 3 * 4 % 5
LexOperators ==
    <<"2", " ", "*", "*", " ", "3", " ", "*", " ", "4", " ", "%", " ", "5">>

\* conjure x as 5\n
LexKeyword ==
    <<"c", "o", "n", "j", "u", "r", "e", " ", "x", " ", "a", "s", " ", "5", "\n">>

\* x @
LexUnexpected ==
    <<"x", " ", "@">>

\* x as 1²
LexSuperscript ==
    <<"x", " ", "a", "s", " ", "1", "²">>

\* "a\\qb"
LexUnknownEscape ==
    <<"\"", "a", "\\", "q", "b", "\"">>

\* 'a\\"b\\\\q'
LexOtherQuote ==
    <<"'", "a", "\\", "\"", "b", "\\", "\\", "q", "'">>

\* "\\q\\n\\\\"
LexEscapeFirst ==
    <<"\"", "\\", "q", "\\", "n", "\\", "\\", "\"">>

LexerGallery ==
    {LexPositions, LexNesting, LexCall, LexComment, LexEscapes, LexNumbers, LexOperators,
     LexKeyword, LexUnexpected, LexSuperscript, LexUnknownEscape, LexOtherQuote, LexEscapeFirst}

LexerSources ==
    UNION {[1 .. n -> LexerAlphabet] : n \in 0 .. MaxSourceLen} \cup LexerGallery

\* `self.start = self.current; self.scan_token()`
ScanToken ==
    /\ lexer.state = "scanning"
    /\ ~Lexer_is_at_end(lexer)
    /\ lexer' = tokenize_step(lexer)
    /\ UNCHANGED <<suite, mode, tokens, ast, pc, interp, status, diag, last, steps, console>>

\* the loop of tokenize() is over: EOF is appended and the call returns
TokenizeEnd ==
    /\ lexer.state = "scanning"
    /\ Lexer_is_at_end(lexer)
    /\ lexer' = tokenize_end(lexer)
    /\ UNCHANGED <<suite, mode, tokens, ast, pc, interp, status, diag, last, steps, console>>

InitLexer ==
    /\ suite = "lexer"
    /\ mode = "run"
    /\ tokens = <<EOF>>
    /\ ast = NoProgram
    /\ pc = 1
    /\ interp = NewInterpreter
    /\ status = "input"
    /\ diag = ""
    /\ last = NoResult
    /\ steps = 0
    /\ lexer \in {NewLexer(source) : source \in LexerSources}
    /\ console = NoConsole

NextLexer == ScanToken \/ TokenizeEnd

SpecLexer == InitLexer /\ [][NextLexer]_vars

(***************************************************************************)
(* repl() and execute_repl_input() (src/slayscript/main.py).  A line is a  *)
(* sequence of characters.  One turn of repl()'s `while True` loop reads a *)
(* line and either leaves, buffers the line, or hands one or two sources   *)
(* to execute_repl_input(), each inside `try ... except SlayScriptError`.  *)
(***************************************************************************)
MaxLines == 4          \* lines one REPL session reads
RecursionLimit == 8    \* nested calls of format_value() before RecursionError

\* str.strip(), str.lstrip(), str.rstrip(), str.endswith(), str.startswith()
Whitespace == {" ", "\t", "\n", "\r"}
RECURSIVE lstrip(_)
lstrip(text) == IF text # <<>> /\ Head(text) \in Whitespace THEN lstrip(Tail(text)) ELSE text
RECURSIVE rstrip(_)
rstrip(text) ==
    IF text # <<>> /\ text[Len(text)] \in Whitespace
    THEN rstrip(SubSeq(text, 1, Len(text) - 1)) ELSE text
strip(text) == lstrip(rstrip(text))
endswith(text, c) == text # <<>> /\ text[Len(text)] = c
startswith(text, prefix) == Len(text) >= Len(prefix) /\ SubSeq(text, 1, Len(prefix)) = prefix

\* '\n'.join(buffer)
RECURSIVE join_lines(_)
join_lines(buffer) ==
    IF buffer = <<>> THEN <<>>
    ELSE IF Len(buffer) = 1 THEN buffer[1]
    ELSE buffer[1] \o <<"\n">> \o join_lines(Tail(buffer))

\* Parser(tokens): the parser reads the type and the value of a token
ParserToken(token) ==
    IF token.type \in {"INTEGER", "STRING", "IDENTIFIER"}
    THEN [type |-> token.type, value |-> token.value]
    ELSE Tok(token.type)
ParserTokens(toks) == [i \in DOMAIN toks |-> ParserToken(toks[i])]

\* Token types whose grammar the parser of this model does not have
UnmodelledTokens == {"FLOAT", "DOT", "COLON", "GRIMOIRE", "INCANTATION"}

\* str(n) for an integer
RECURSIVE str_int(_)
str_int(n) ==
    IF n < 0 THEN "-" \o str_int(0 - n)
    ELSE IF n < 10 THEN <<"0", "1", "2", "3", "4", "5", "6", "7", "8", "9">>[n + 1]
    ELSE str_int(n \div 10) \o str_int(n % 10)

\* format_value(): [sig, text].  depth is the number of calls of format_value
\* on the stack; Python raises RecursionError when its stack is full.
RECURSIVE format_value(_, _, _)
RECURSIVE format_items(_, _, _, _, _)
format_value(st, value, depth) ==
    IF depth > RecursionLimit THEN [sig |-> "RecursionError", text |-> ""]
    ELSE CASE value.t = "void" -> [sig |-> "none", text |-> "void"]
           [] value.t = "bool" -> [sig |-> "none", text |-> IF value.v = 1 THEN "true" ELSE "false"]
           [] value.t = "str" -> [sig |-> "none", text |-> "\"" \o value.v \o "\""]
           [] value.t = "list" ->
                LET items == format_items(st, st.heap[value.v], 1, depth, "")
                IN  IF items.sig # "none" THEN items
                    ELSE [sig |-> "none", text |-> "tome [" \o items.text \o "]"]
           [] value.t = "int" -> [sig |-> "none", text |-> str_int(value.v)]
           [] value.t = "func" -> [sig |-> "none", text |-> "<spell " \o st.funcs[value.v].name \o ">"]
           [] value.t = "builtin" -> [sig |-> "none", text |-> "<builtin " \o value.v \o ">"]

\* ", ".join(format_value(v) for v in value)
format_items(st, items, i, depth, text) ==
    IF i > Len(items) THEN [sig |-> "none", text |-> text]
    ELSE LET item == format_value(st, items[i], depth + 1)
         IN  IF item.sig # "none" THEN item
             ELSE format_items(st, items, i + 1, depth,
                               IF i = 1 THEN item.text ELSE text \o ", " \o item.text)

\* interpret(): the statements in turn, the result of the last one
interpret(program, st) == execute_statements(program.statements, 1, st, None)

\* execute_repl_input(): [st, sig, val, printed], in its stages.  After
\* interpret(): the result is printed when it is not None and the unit is one
\* expression statement.
repl_input_interpreted(program, o, shown) ==
    IF o.sig # "none" THEN [st |-> o.st, sig |-> o.sig, val |-> None, printed |-> ""]
    ELSE IF o.val # None /\ Len(program.statements) = 1
                        /\ program.statements[1].type = "ExprStmt"
    THEN [st |-> o.st, sig |-> shown.sig, val |-> o.val, printed |-> shown.text]
    ELSE [st |-> o.st, sig |-> "none", val |-> o.val, printed |-> ""]

repl_input_result(program, o) == repl_input_interpreted(program, o, format_value(o.st, o.val, 1))

\* After parser.parse().  The budget of the unit starts full and its history empty.
repl_input_parsed(st, r) ==
    IF r.err THEN [st |-> st, sig |-> "SpellMiscast", val |-> None, printed |-> ""]
    ELSE repl_input_result(r.node,
             interpret(r.node, [st EXCEPT !.fuel = MaxFuel, !.ncalls = 0,
                                          !.nloops = 0, !.log = <<>>]))

\* After lexer.tokenize()
repl_input_lexed(st, lx) ==
    IF lx.state # "done" THEN [st |-> st, sig |-> lx.state, val |-> None, printed |-> ""]
    ELSE IF \E i \in DOMAIN lx.tokens : lx.tokens[i].type \in UnmodelledTokens
    THEN [st |-> st, sig |-> "Unmodelled", val |-> None, printed |-> ""]
    ELSE repl_input_parsed(st, parse(ParserTokens(lx.tokens)))

execute_repl_input(st, source) == repl_input_lexed(st, tokenize(source))

\* The turn after execute_repl_input(source) ended with outcome o:
\* `except SlayScriptError as e: print(e)`, and any other exception leaves repl()
repl_executed(turn, source, o) ==
    [turn EXCEPT !.st = o.st,
                 !.units = Append(@, source),
                 !.last = [sig |-> o.sig, val |-> o.val],
                 !.printed = IF o.sig = "none" THEN o.printed ELSE "",
                 !.diag = IF o.sig \in SlayScriptError THEN o.sig ELSE @,
                 !.status = IF o.sig = "none" \/ o.sig \in SlayScriptError THEN "input"
                            ELSE IF o.sig = "Hung" THEN "hung"
                            ELSE IF o.sig = "Unmodelled" THEN "unmodelled"
                            ELSE "crash"]

\* `try: execute_repl_input(interpreter, source)` for each of the sources in
\* turn.  Nothing runs once an exception has left the loop.
RECURSIVE repl_execute(_, _)
repl_execute(turn, sources) ==
    IF sources = <<>> \/ turn.status # "input" THEN turn
    ELSE repl_execute(repl_executed(turn, Head(sources),
                                    execute_repl_input(turn.st, Head(sources))),
                      Tail(sources))

\* One turn of repl()'s loop on the line read: [st, buffer, units, last,
\* printed, diag, status], units being the sources handed to
\* execute_repl_input() in this turn: none when the line is buffered, the
\* buffer when the line is empty, the buffer and then the line when the line
\* is not indented, the line when the buffer is empty.
repl_turn(buffer, st, line) ==
    LET turn == [st |-> st, buffer |-> buffer, units |-> <<>>, last |-> NoResult,
                 printed |-> "", diag |-> "", status |-> "input"]
        stripped == lstrip(line)
        current_indent == Len(line) - Len(stripped)
        joined == IF buffer # <<>> THEN <<join_lines(buffer)>> ELSE <<>>
    IN  IF strip(line) \in {<<"e", "x", "i", "t">>, <<"q", "u", "i", "t">>} /\ buffer = <<>>
        THEN [turn EXCEPT !.status = "exit0"]
        ELSE IF strip(line) # <<>> /\ endswith(rstrip(line), ":")
        THEN [turn EXCEPT !.buffer = Append(@, line)]
        ELSE IF strip(line) # <<>> /\ buffer # <<>>
                /\ (current_indent > 0
                    \/ startswith(stripped, <<"o", "t", "h", "e", "r", "w", "i", "s", "e">>)
                    \/ startswith(stripped, <<"f", "a", "t", "e">>))
        THEN [turn EXCEPT !.buffer = Append(@, line)]
        ELSE repl_execute([turn EXCEPT !.buffer = <<>>],
                          IF strip(line) = <<>> THEN joined ELSE Append(joined, line))

\* spell f() {
LineSpellOpen ==
    <<"s", "p", "e", "l", "l", " ", "f", "(", ")", " ", "{">>

\*   cast 1
LineCast ==
    <<" ", " ", "c", "a", "s", "t", " ", "1">>

\* }
LineClose ==
    <<"}">>

\* the empty line
LineEmpty == <<>>

\* f()
LineCallF ==
    <<"f", "(", ")">>

\* conjure x as 1 ~ then:
LineNote ==
    <<"c", "o", "n", "j", "u", "r", "e", " ", "x", " ", "a", "s", " ", "1", " ", "~", " ",
      "t", "h", "e", "n", ":">>

\*   conjure y as 2
LineIndented ==
    <<" ", " ", "c", "o", "n", "j", "u", "r", "e", " ", "y", " ", "a", "s", " ", "2">>

\* spell g() { cast 2 }
LineOneLiner ==
    <<"s", "p", "e", "l", "l", " ", "g", "(", ")", " ", "{", " ", "c", "a", "s", "t", " ",
      "2", " ", "}">>

\* exit
LineExit ==
    <<"e", "x", "i", "t">>

BufferLines ==
    {LineSpellOpen, LineCast, LineClose, LineEmpty, LineCallF, LineNote, LineIndented,
      LineOneLiner, LineExit}

\* conjure x as 1
LineVarX ==
    <<"c", "o", "n", "j", "u", "r", "e", " ", "x", " ", "a", "s", " ", "1">>

\* x % 0
LineModZero ==
    <<"x", " ", "%", " ", "0">>

\* x / 0
LineDivZero ==
    <<"x", " ", "/", " ", "0">>

\* x
LineReadX ==
    <<"x">>

\* x @ 1
LineBadChar ==
    <<"x", " ", "@", " ", "1">>

\* x +
LineBadSyntax ==
    <<"x", " ", "+">>

\* conjure a as tome [1, 2]
LineList ==
    <<"c", "o", "n", "j", "u", "r", "e", " ", "a", " ", "a", "s", " ", "t", "o", "m", "e",
      " ", "[", "1", ",", " ", "2", "]">>

\* transmute (a[5]) as 1
LineBadIndex ==
    <<"t", "r", "a", "n", "s", "m", "u", "t", "e", " ", "(", "a", "[", "5", "]", ")", " ",
      "a", "s", " ", "1">>

\* x under "a"
LineMismatch ==
    <<"x", " ", "u", "n", "d", "e", "r", " ", "\"", "a", "\"">>

\* spell g() { prophecy reveals true { cast x % 0 } }
LineDeep ==
    <<"s", "p", "e", "l", "l", " ", "g", "(", ")", " ", "{", " ", "p", "r", "o", "p", "h",
      "e", "c", "y", " ", "r", "e", "v", "e", "a", "l", "s", " ", "t", "r", "u", "e", " ",
      "{", " ", "c", "a", "s", "t", " ", "x", " ", "%", " ", "0", " ", "}", " ", "}">>

\* g()
LineCallG ==
    <<"g", "(", ")">>

\* y
LineUnknown ==
    <<"y">>

ErrorLines ==
    {LineVarX, LineModZero, LineDivZero, LineReadX, LineBadChar, LineBadSyntax, LineList,
      LineBadIndex, LineMismatch, LineDeep, LineCallG, LineUnknown}

\* conjure a as tome [1]
LineListA ==
    <<"c", "o", "n", "j", "u", "r", "e", " ", "a", " ", "a", "s", " ", "t", "o", "m", "e",
      " ", "[", "1", "]">>

\* append(a, a)
LineAppendAA ==
    <<"a", "p", "p", "e", "n", "d", "(", "a", ",", " ", "a", ")">>

\* a
LineShowA ==
    <<"a">>

\* conjure b as tome [a, 2]
LineListB ==
    <<"c", "o", "n", "j", "u", "r", "e", " ", "b", " ", "a", "s", " ", "t", "o", "m", "e",
      " ", "[", "a", ",", " ", "2", "]">>

\* b
LineShowB ==
    <<"b">>

\* append(a, b)
LineAppendAB ==
    <<"a", "p", "p", "e", "n", "d", "(", "a", ",", " ", "b", ")">>

\* append(b, "s")
LineAppendBS ==
    <<"a", "p", "p", "e", "n", "d", "(", "b", ",", " ", "\"", "s", "\"", ")">>

\* append
LineShowAppend ==
    <<"a", "p", "p", "e", "n", "d">>

\* a[0]
LineShowA0 ==
    <<"a", "[", "0", "]">>

PrintLines ==
    {LineListA, LineAppendAA, LineShowA, LineListB, LineShowB, LineAppendAB, LineAppendBS,
      LineShowAppend, LineShowA0}

Lines(s) ==
    CASE s = "buffer" -> BufferLines
      [] s = "error" -> ErrorLines
      [] s = "print" -> PrintLines

\* What the turn leaves behind
ReplTurnDone(turn, line) ==
    /\ console' = [buffer |-> turn.buffer, before |-> console.buffer,
                   globals |-> interp.envs[1].values, line |-> line,
                   units |-> turn.units, printed |-> turn.printed]
    /\ interp' = turn.st
    /\ status' = turn.status
    /\ diag' = turn.diag
    /\ last' = turn.last

\* line = input(prompt) and the rest of the turn
ReplLine ==
    /\ status = "input"
    /\ steps < MaxLines
    /\ \E line \in Lines(suite) : ReplTurnDone(repl_turn(console.buffer, interp, line), line)
    /\ steps' = steps + 1
    /\ UNCHANGED <<suite, mode, tokens, ast, pc, lexer>>

\* input() raises EOFError: repl() prints its farewell and returns
EndOfInput ==
    /\ status = "input"
    /\ status' = "exit0"
    /\ UNCHANGED <<suite, mode, tokens, ast, pc, interp, diag, last, steps, lexer, console>>

InitRepl(s) ==
    /\ suite = s
    /\ mode = "repl"
    /\ tokens = <<EOF>>
    /\ ast = NoProgram
    /\ pc = 1
    /\ interp = register_builtins(NewInterpreter)
    /\ status = "input"
    /\ diag = ""
    /\ last = NoResult
    /\ steps = 0
    /\ lexer = NewLexer(<<>>)
    /\ console = NoConsole

NextRepl == ReplLine \/ EndOfInput

SpecBuffer == InitRepl("buffer") /\ [][NextRepl]_vars
SpecError == InitRepl("error") /\ [][NextRepl]_vars
SpecPrint == InitRepl("print") /\ [][NextRepl]_vars

(***************************************************************************)
(* run(source) on a source text: the programs of the cast suite.  Each     *)
(* declares a spell f whose body ends in a `cast` followed, on the next    *)
(* line or on the same line, by one more statement, and calls f.           *)
(***************************************************************************)
\* spell f() {\n
CastOpen ==
    <<"s", "p", "e", "l", "l", " ", "f", "(", ")", " ", "{", "\n">>

\*   conjure x as 1\n
CastSetup ==
    <<" ", " ", "c", "o", "n", "j", "u", "r", "e", " ", "x", " ", "a", "s", " ", "1",
      "\n">>

\*   cast\n
CastBare ==
    <<" ", " ", "c", "a", "s", "t", "\n">>

\*   cast 
CastSameLine ==
    <<" ", " ", "c", "a", "s", "t", " ">>

\* \n}\n
CastClose ==
    <<"\n", "}", "\n">>

\* conjure r as f()\n
CastCall ==
    <<"c", "o", "n", "j", "u", "r", "e", " ", "r", " ", "a", "s", " ", "f", "(", ")",
      "\n">>

\* 1 + 1
StmtSum ==
    <<"1", " ", "+", " ", "1">>

\* 7
StmtNumber ==
    <<"7">>

\* - 1
StmtNegative ==
    <<"-", " ", "1">>

\* "s"
StmtText ==
    <<"\"", "s", "\"">>

\* true
StmtTrue ==
    <<"t", "r", "u", "e">>

\* [1, 2]
StmtList ==
    <<"[", "1", ",", " ", "2", "]">>

\* (2)
StmtGroup ==
    <<"(", "2", ")">>

\* g()
StmtCall ==
    <<"g", "(", ")">>

\* conjure y as 2
StmtDeclare ==
    <<"c", "o", "n", "j", "u", "r", "e", " ", "y", " ", "a", "s", " ", "2">>

\* no statement
StmtNothing == <<>>

CastStatements ==
    {StmtSum, StmtNumber, StmtNegative, StmtText, StmtTrue, StmtList, StmtGroup, StmtCall,
      StmtDeclare, StmtNothing}

\* spell f() {        spell f() {            spell f() {
\*   cast               conjure x as 1         cast <statement>
\*   <statement>        cast                 }
\* }                    <statement>          conjure r as f()
\* conjure r as f()   }
\*                    conjure r as f()
CastOnOwnLine(following) == CastOpen \o CastBare \o <<" ", " ">> \o following \o CastClose \o CastCall
CastAfterSetup(following) ==
    CastOpen \o CastSetup \o CastBare \o <<" ", " ">> \o following \o CastClose \o CastCall
CastWithValue(following) == CastOpen \o CastSameLine \o following \o CastClose \o CastCall
CastPrograms ==
    {CastOnOwnLine(following) : following \in CastStatements}
        \cup {CastAfterSetup(following) : following \in CastStatements}
        \cup {CastWithValue(following) : following \in CastStatements}

(***************************************************************************)
(* The programs of the rebind suite: a global x, and a block or a spell    *)
(* with its own x in which three statements assign to or delete x, from    *)
(* the environment that binds it or from a block nested in it.             *)
(***************************************************************************)
\* conjure x as 1\nprophecy reveals true {\n  conjure x as 2\n
RebindBlockOpen ==
    <<"c", "o", "n", "j", "u", "r", "e", " ", "x", " ", "a", "s", " ", "1", "\n", "p", "r",
      "o", "p", "h", "e", "c", "y", " ", "r", "e", "v", "e", "a", "l", "s", " ", "t", "r",
      "u", "e", " ", "{", "\n", " ", " ", "c", "o", "n", "j", "u", "r", "e", " ", "x", " ",
      "a", "s", " ", "2", "\n">>

\* }\nx\n
RebindBlockClose ==
    <<"}", "\n", "x", "\n">>

\* conjure x as 1\nspell f(x) {\n
RebindSpellOpen ==
    <<"c", "o", "n", "j", "u", "r", "e", " ", "x", " ", "a", "s", " ", "1", "\n", "s", "p",
      "e", "l", "l", " ", "f", "(", "x", ")", " ", "{", "\n">>

\* }\nf(2)\nx\n
RebindSpellClose ==
    <<"}", "\n", "f", "(", "2", ")", "\n", "x", "\n">>

\*   transmute x as 3\n
OpSet ==
    <<" ", " ", "t", "r", "a", "n", "s", "m", "u", "t", "e", " ", "x", " ", "a", "s", " ",
      "3", "\n">>

\*   vanquish x\n
OpDelete ==
    <<" ", " ", "v", "a", "n", "q", "u", "i", "s", "h", " ", "x", "\n">>

\*   prophecy reveals true { transmute x as 4 }\n
OpNestedSet ==
    <<" ", " ", "p", "r", "o", "p", "h", "e", "c", "y", " ", "r", "e", "v", "e", "a", "l",
      "s", " ", "t", "r", "u", "e", " ", "{", " ", "t", "r", "a", "n", "s", "m", "u", "t",
      "e", " ", "x", " ", "a", "s", " ", "4", " ", "}", "\n">>

\*   prophecy reveals true { vanquish x }\n
OpNestedDelete ==
    <<" ", " ", "p", "r", "o", "p", "h", "e", "c", "y", " ", "r", "e", "v", "e", "a", "l",
      "s", " ", "t", "r", "u", "e", " ", "{", " ", "v", "a", "n", "q", "u", "i", "s", "h",
      " ", "x", " ", "}", "\n">>

\*   conjure x as 5\n
OpDeclare ==
    <<" ", " ", "c", "o", "n", "j", "u", "r", "e", " ", "x", " ", "a", "s", " ", "5",
      "\n">>

\*   transmute y as 6\n
OpSetUnbound ==
    <<" ", " ", "t", "r", "a", "n", "s", "m", "u", "t", "e", " ", "y", " ", "a", "s", " ",
      "6", "\n">>

\*   vanquish y\n
OpDeleteUnbound ==
    <<" ", " ", "v", "a", "n", "q", "u", "i", "s", "h", " ", "y", "\n">>
RebindOps == {OpSet, OpDelete, OpNestedSet, OpNestedDelete, OpDeclare, OpSetUnbound, OpDeleteUnbound}
RebindInBlock(a, b, c) == RebindBlockOpen \o a \o b \o c \o RebindBlockClose
RebindInSpell(a, b, c) == RebindSpellOpen \o a \o b \o c \o RebindSpellClose
RebindPrograms ==
    {RebindInBlock(a, b, c) : a, b, c \in RebindOps}
        \cup {RebindInSpell(a, b, c) : a, b, c \in RebindOps}

(***************************************************************************)
(* The programs of the hunt suite: a loop over [1, 2, 3] whose body is two *)
(* statements, with or without a global i, and a last statement that reads *)
(* i, reads n or calls the functions the iterations declared.              *)
(***************************************************************************)
\* conjure n as 0\nconjure fs as []\n
HuntGlobals ==
    <<"c", "o", "n", "j", "u", "r", "e", " ", "n", " ", "a", "s", " ", "0", "\n", "c", "o",
      "n", "j", "u", "r", "e", " ", "f", "s", " ", "a", "s", " ", "[", "]", "\n">>

\* conjure i as 7\n
HuntOuterVar ==
    <<"c", "o", "n", "j", "u", "r", "e", " ", "i", " ", "a", "s", " ", "7", "\n">>

\* hunt each i in [1, 2, 3] {\n
HuntOpen ==
    <<"h", "u", "n", "t", " ", "e", "a", "c", "h", " ", "i", " ", "i", "n", " ", "[", "1",
      ",", " ", "2", ",", " ", "3", "]", " ", "{", "\n">>

\* }\n
HuntClose ==
    <<"}", "\n">>

\*   transmute i as i + 10\n
HuntSetVar ==
    <<" ", " ", "t", "r", "a", "n", "s", "m", "u", "t", "e", " ", "i", " ", "a", "s", " ",
      "i", " ", "+", " ", "1", "0", "\n">>

\*   conjure y as i\n
HuntDeclare ==
    <<" ", " ", "c", "o", "n", "j", "u", "r", "e", " ", "y", " ", "a", "s", " ", "i",
      "\n">>

\*   prophecy reveals i exceeds 1 { transmute n as y }\n
HuntReadLater ==
    <<" ", " ", "p", "r", "o", "p", "h", "e", "c", "y", " ", "r", "e", "v", "e", "a", "l",
      "s", " ", "i", " ", "e", "x", "c", "e", "e", "d", "s", " ", "1", " ", "{", " ", "t",
      "r", "a", "n", "s", "m", "u", "t", "e", " ", "n", " ", "a", "s", " ", "y", " ", "}",
      "\n">>

\*   spell g() { cast i }\n  append(fs, g)\n
HuntCapture ==
    <<" ", " ", "s", "p", "e", "l", "l", " ", "g", "(", ")", " ", "{", " ", "c", "a", "s",
      "t", " ", "i", " ", "}", "\n", " ", " ", "a", "p", "p", "e", "n", "d", "(", "f", "s",
      ",", " ", "g", ")", "\n">>

\*   transmute n as n + i\n
HuntSum ==
    <<" ", " ", "t", "r", "a", "n", "s", "m", "u", "t", "e", " ", "n", " ", "a", "s", " ",
      "n", " ", "+", " ", "i", "\n">>

\*   vanquish i\n
HuntDelete ==
    <<" ", " ", "v", "a", "n", "q", "u", "i", "s", "h", " ", "i", "\n">>

\* i\n
TailReadVar ==
    <<"i", "\n">>

\* n\n
TailReadSum ==
    <<"n", "\n">>

\* fs[0]() + fs[2]()\n
TailCalls ==
    <<"f", "s", "[", "0", "]", "(", ")", " ", "+", " ", "f", "s", "[", "2", "]", "(", ")",
      "\n">>
HuntOps == {HuntSetVar, HuntDeclare, HuntReadLater, HuntCapture, HuntSum, HuntDelete}
HuntTails == {TailReadVar, TailReadSum, TailCalls}
HuntProgram(outer, a, b, tail) == HuntGlobals \o outer \o HuntOpen \o a \o b \o HuntClose \o tail
HuntPrograms ==
    {HuntProgram(outer, a, b, tail) :
        outer \in {<<>>, HuntOuterVar}, a \in HuntOps, b \in HuntOps, tail \in HuntTails}

(***************************************************************************)
(* The programs of the nest suite: a loop in a loop, each a `hunt each`    *)
(* over [1, 2] or a `patrol until` that counts to 2.  The inner body is a  *)
(* statement that may break or continue, then a count in n; the outer body *)
(* is the inner loop, a statement that may break or continue, then a count *)
(* in m.  The deep programs put the same inner loop in a `patrol until`    *)
(* in a `hunt each`.                                                       *)
(***************************************************************************)
\* conjure n as 0\nconjure m as 0\n
NestGlobals ==
    <<"c", "o", "n", "j", "u", "r", "e", " ", "n", " ", "a", "s", " ", "0", "\n", "c", "o",
      "n", "j", "u", "r", "e", " ", "m", " ", "a", "s", " ", "0", "\n">>

\* hunt each a in [1, 2] {\n
OuterHunt ==
    <<"h", "u", "n", "t", " ", "e", "a", "c", "h", " ", "a", " ", "i", "n", " ", "[", "1",
      ",", " ", "2", "]", " ", "{", "\n">>

\* conjure a as 0\npatrol until a atleast 2 {\n  transmute a as a + 1\n
OuterPatrol ==
    <<"c", "o", "n", "j", "u", "r", "e", " ", "a", " ", "a", "s", " ", "0", "\n", "p", "a",
      "t", "r", "o", "l", " ", "u", "n", "t", "i", "l", " ", "a", " ", "a", "t", "l", "e",
      "a", "s", "t", " ", "2", " ", "{", "\n", " ", " ", "t", "r", "a", "n", "s", "m", "u",
      "t", "e", " ", "a", " ", "a", "s", " ", "a", " ", "+", " ", "1", "\n">>

\*   hunt each b in [1, 2] {\n
InnerHunt ==
    <<" ", " ", "h", "u", "n", "t", " ", "e", "a", "c", "h", " ", "b", " ", "i", "n", " ",
      "[", "1", ",", " ", "2", "]", " ", "{", "\n">>

\*   conjure b as 0\n  patrol until b atleast 2 {\n    transmute b as b + 1\n
InnerPatrol ==
    <<" ", " ", "c", "o", "n", "j", "u", "r", "e", " ", "b", " ", "a", "s", " ", "0", "\n",
      " ", " ", "p", "a", "t", "r", "o", "l", " ", "u", "n", "t", "i", "l", " ", "b", " ",
      "a", "t", "l", "e", "a", "s", "t", " ", "2", " ", "{", "\n", " ", " ", " ", " ", "t",
      "r", "a", "n", "s", "m", "u", "t", "e", " ", "b", " ", "a", "s", " ", "b", " ", "+",
      " ", "1", "\n">>

\* (nothing)
InnerNothing == <<>>

\*     break\n
InnerBreak ==
    <<" ", " ", " ", " ", "b", "r", "e", "a", "k", "\n">>

\*     continue\n
InnerContinue ==
    <<" ", " ", " ", " ", "c", "o", "n", "t", "i", "n", "u", "e", "\n">>

\*     prophecy reveals b is 1 { break }\n
InnerBreakAt1 ==
    <<" ", " ", " ", " ", "p", "r", "o", "p", "h", "e", "c", "y", " ", "r", "e", "v", "e",
      "a", "l", "s", " ", "b", " ", "i", "s", " ", "1", " ", "{", " ", "b", "r", "e", "a",
      "k", " ", "}", "\n">>

\*     prophecy reveals b is 1 { continue }\n
InnerContinueAt1 ==
    <<" ", " ", " ", " ", "p", "r", "o", "p", "h", "e", "c", "y", " ", "r", "e", "v", "e",
      "a", "l", "s", " ", "b", " ", "i", "s", " ", "1", " ", "{", " ", "c", "o", "n", "t",
      "i", "n", "u", "e", " ", "}", "\n">>

\*     prophecy reveals b is 2 { break }\n
InnerBreakAt2 ==
    <<" ", " ", " ", " ", "p", "r", "o", "p", "h", "e", "c", "y", " ", "r", "e", "v", "e",
      "a", "l", "s", " ", "b", " ", "i", "s", " ", "2", " ", "{", " ", "b", "r", "e", "a",
      "k", " ", "}", "\n">>

\*     prophecy reveals true { prophecy reveals b is 1 { continue } }\n
InnerDeepContinueAt1 ==
    <<" ", " ", " ", " ", "p", "r", "o", "p", "h", "e", "c", "y", " ", "r", "e", "v", "e",
      "a", "l", "s", " ", "t", "r", "u", "e", " ", "{", " ", "p", "r", "o", "p", "h", "e",
      "c", "y", " ", "r", "e", "v", "e", "a", "l", "s", " ", "b", " ", "i", "s", " ", "1",
      " ", "{", " ", "c", "o", "n", "t", "i", "n", "u", "e", " ", "}", " ", "}", "\n">>

\*     prophecy reveals b is 2 { } fate decrees { break }\n
InnerElseBreak ==
    <<" ", " ", " ", " ", "p", "r", "o", "p", "h", "e", "c", "y", " ", "r", "e", "v", "e",
      "a", "l", "s", " ", "b", " ", "i", "s", " ", "2", " ", "{", " ", "}", " ", "f", "a",
      "t", "e", " ", "d", "e", "c", "r", "e", "e", "s", " ", "{", " ", "b", "r", "e", "a",
      "k", " ", "}", "\n">>

\*     transmute n as n + 1\n  }\n
InnerCount ==
    <<" ", " ", " ", " ", "t", "r", "a", "n", "s", "m", "u", "t", "e", " ", "n", " ", "a",
      "s", " ", "n", " ", "+", " ", "1", "\n", " ", " ", "}", "\n">>

\* (nothing)
OuterNothing == <<>>

\*   prophecy reveals a is 1 { continue }\n
OuterContinueAt1 ==
    <<" ", " ", "p", "r", "o", "p", "h", "e", "c", "y", " ", "r", "e", "v", "e", "a", "l",
      "s", " ", "a", " ", "i", "s", " ", "1", " ", "{", " ", "c", "o", "n", "t", "i", "n",
      "u", "e", " ", "}", "\n">>

\*   prophecy reveals a is 1 { break }\n
OuterBreakAt1 ==
    <<" ", " ", "p", "r", "o", "p", "h", "e", "c", "y", " ", "r", "e", "v", "e", "a", "l",
      "s", " ", "a", " ", "i", "s", " ", "1", " ", "{", " ", "b", "r", "e", "a", "k", " ",
      "}", "\n">>

\*   transmute m as m + 1\n}\n
OuterCount ==
    <<" ", " ", "t", "r", "a", "n", "s", "m", "u", "t", "e", " ", "m", " ", "a", "s", " ",
      "m", " ", "+", " ", "1", "\n", "}", "\n">>

\* n * 10 + m\n
NestResult ==
    <<"n", " ", "*", " ", "1", "0", " ", "+", " ", "m", "\n">>

\* hunt each c in [1] {\n  patrol until false {\n
DeepOpen ==
    <<"h", "u", "n", "t", " ", "e", "a", "c", "h", " ", "c", " ", "i", "n", " ", "[", "1",
      "]", " ", "{", "\n", " ", " ", "p", "a", "t", "r", "o", "l", " ", "u", "n", "t", "i",
      "l", " ", "f", "a", "l", "s", "e", " ", "{", "\n">>

\*   transmute m as m + 1\n  break\n  }\n  transmute m as m + 2\n}\n
DeepClose ==
    <<" ", " ", "t", "r", "a", "n", "s", "m", "u", "t", "e", " ", "m", " ", "a", "s", " ",
      "m", " ", "+", " ", "1", "\n", " ", " ", "b", "r", "e", "a", "k", "\n", " ", " ",
      "}", "\n", " ", " ", "t", "r", "a", "n", "s", "m", "u", "t", "e", " ", "m", " ", "a",
      "s", " ", "m", " ", "+", " ", "2", "\n", "}", "\n">>
OuterLoops == {OuterHunt, OuterPatrol}
InnerLoops == {InnerHunt, InnerPatrol}
InnerStatements ==
    {InnerNothing, InnerBreak, InnerContinue, InnerBreakAt1, InnerContinueAt1, InnerBreakAt2,
     InnerDeepContinueAt1, InnerElseBreak}
OuterStatements == {OuterNothing, OuterContinueAt1, OuterBreakAt1}
NestProgram(outer, inner, s, t) ==
    NestGlobals \o outer \o inner \o s \o InnerCount \o t \o OuterCount \o NestResult
DeepProgram(inner, s) ==
    NestGlobals \o DeepOpen \o inner \o s \o InnerCount \o DeepClose \o NestResult
NestPrograms ==
    {NestProgram(outer, inner, s, t) :
        outer \in OuterLoops, inner \in InnerLoops, s \in InnerStatements, t \in OuterStatements}
        \cup {DeepProgram(inner, s) : inner \in InnerLoops, s \in InnerStatements}

(***************************************************************************)
(* The programs of the frames suite.  In the first kind a spell f with a   *)
(* parameter p and a local w calls a spell g declared beside it, from its  *)
(* body or from a block with a local v, and g reads the global v (when     *)
(* there is one), the caller's w or its own p.  In the second kind a spell *)
(* calls itself with k - 1 down to 0 and adds up the k of each invocation. *)
(***************************************************************************)
\* conjure v as 1\n
FramesGlobalV ==
    <<"c", "o", "n", "j", "u", "r", "e", " ", "v", " ", "a", "s", " ", "1", "\n">>

\* spell g(p) { cast v }\n
CalleeReadsV ==
    <<"s", "p", "e", "l", "l", " ", "g", "(", "p", ")", " ", "{", " ", "c", "a", "s", "t",
      " ", "v", " ", "}", "\n">>

\* spell g(p) { cast w }\n
CalleeReadsW ==
    <<"s", "p", "e", "l", "l", " ", "g", "(", "p", ")", " ", "{", " ", "c", "a", "s", "t",
      " ", "w", " ", "}", "\n">>

\* spell g(p) { cast p }\n
CalleeReadsP ==
    <<"s", "p", "e", "l", "l", " ", "g", "(", "p", ")", " ", "{", " ", "c", "a", "s", "t",
      " ", "p", " ", "}", "\n">>

\* spell f(p) {\n  conjure w as 5\n
CallerOpen ==
    <<"s", "p", "e", "l", "l", " ", "f", "(", "p", ")", " ", "{", "\n", " ", " ", "c", "o",
      "n", "j", "u", "r", "e", " ", "w", " ", "a", "s", " ", "5", "\n">>

\*   cast g(p + 1)\n
CallFromBody ==
    <<" ", " ", "c", "a", "s", "t", " ", "g", "(", "p", " ", "+", " ", "1", ")", "\n">>

\*   prophecy reveals true {\n    conjure v as 7\n    cast g(p + 1)\n  }\n
CallFromBlock ==
    <<" ", " ", "p", "r", "o", "p", "h", "e", "c", "y", " ", "r", "e", "v", "e", "a", "l",
      "s", " ", "t", "r", "u", "e", " ", "{", "\n", " ", " ", " ", " ", "c", "o", "n", "j",
      "u", "r", "e", " ", "v", " ", "a", "s", " ", "7", "\n", " ", " ", " ", " ", "c", "a",
      "s", "t", " ", "g", "(", "p", " ", "+", " ", "1", ")", "\n", " ", " ", "}", "\n">>

\*   conjure q as g(p + 1)\n  cast p * 10 + q\n
CallThenUse ==
    <<" ", " ", "c", "o", "n", "j", "u", "r", "e", " ", "q", " ", "a", "s", " ", "g", "(",
      "p", " ", "+", " ", "1", ")", "\n", " ", " ", "c", "a", "s", "t", " ", "p", " ", "*",
      " ", "1", "0", " ", "+", " ", "q", "\n">>

\* }\nf(1)\n
CallerClose ==
    <<"}", "\n", "f", "(", "1", ")", "\n">>

\* spell sum(k) {\n  prophecy reveals k under 1 { cast 0 }\n  conjure r as sum(k - 1)\n  cast r + k\n}\n
RecursePlain ==
    <<"s", "p", "e", "l", "l", " ", "s", "u", "m", "(", "k", ")", " ", "{", "\n", " ", " ",
      "p", "r", "o", "p", "h", "e", "c", "y", " ", "r", "e", "v", "e", "a", "l", "s", " ",
      "k", " ", "u", "n", "d", "e", "r", " ", "1", " ", "{", " ", "c", "a", "s", "t", " ",
      "0", " ", "}", "\n", " ", " ", "c", "o", "n", "j", "u", "r", "e", " ", "r", " ", "a",
      "s", " ", "s", "u", "m", "(", "k", " ", "-", " ", "1", ")", "\n", " ", " ", "c", "a",
      "s", "t", " ", "r", " ", "+", " ", "k", "\n", "}", "\n">>

\* spell sum(k) {\n  prophecy reveals k under 1 { cast 0 }\n  conjure j as k\n  transmute k as k - 1\n  conjure r as sum(k)\n  cast r + k + 1\n}\n
RecurseRebind ==
    <<"s", "p", "e", "l", "l", " ", "s", "u", "m", "(", "k", ")", " ", "{", "\n", " ", " ",
      "p", "r", "o", "p", "h", "e", "c", "y", " ", "r", "e", "v", "e", "a", "l", "s", " ",
      "k", " ", "u", "n", "d", "e", "r", " ", "1", " ", "{", " ", "c", "a", "s", "t", " ",
      "0", " ", "}", "\n", " ", " ", "c", "o", "n", "j", "u", "r", "e", " ", "j", " ", "a",
      "s", " ", "k", "\n", " ", " ", "t", "r", "a", "n", "s", "m", "u", "t", "e", " ", "k",
      " ", "a", "s", " ", "k", " ", "-", " ", "1", "\n", " ", " ", "c", "o", "n", "j", "u",
      "r", "e", " ", "r", " ", "a", "s", " ", "s", "u", "m", "(", "k", ")", "\n", " ", " ",
      "c", "a", "s", "t", " ", "r", " ", "+", " ", "k", " ", "+", " ", "1", "\n", "}",
      "\n">>
Callees == {CalleeReadsV, CalleeReadsW, CalleeReadsP}
CallSites == {CallFromBody, CallFromBlock, CallThenUse}
FramesProgram(global, callee, site) == global \o callee \o CallerOpen \o site \o CallerClose
MaxDepth == 3
\* sum(<n>)
CallSum(n) == <<"s", "u", "m", "(", str_int(n), ")", "\n">>
RecursePrograms ==
    {recurse \o CallSum(n) : recurse \in {RecursePlain, RecurseRebind}, n \in 0 .. MaxDepth}
FramesPrograms ==
    {FramesProgram(global, callee, site) :
        global \in {<<>>, FramesGlobalV}, callee \in Callees, site \in CallSites}
        \cup RecursePrograms

(***************************************************************************)
(* The programs of the order suite: one ordering comparison of two         *)
(* operands, each a number, a Bool, a string, Void or a function.          *)
(***************************************************************************)
\* 1
OperandOne ==
    <<"1">>

\* 2
OperandTwo ==
    <<"2">>

\* true
OperandTrue ==
    <<"t", "r", "u", "e">>

\* "s"
OperandText ==
    <<"\"", "s", "\"">>

\* void
OperandVoid ==
    <<"v", "o", "i", "d">>

\* append
OperandFunction ==
    <<"a", "p", "p", "e", "n", "d">>

\*  exceeds 
OpExceeds ==
    <<" ", "e", "x", "c", "e", "e", "d", "s", " ">>

\*  under 
OpUnder ==
    <<" ", "u", "n", "d", "e", "r", " ">>

\*  atleast 
OpAtLeast ==
    <<" ", "a", "t", "l", "e", "a", "s", "t", " ">>

\*  atmost 
OpAtMost ==
    <<" ", "a", "t", "m", "o", "s", "t", " ">>
NumberOperands == {OperandOne, OperandTwo, OperandTrue}
OrderOperands == NumberOperands \cup {OperandText, OperandVoid, OperandFunction}
OrderOperators == {OpExceeds, OpUnder, OpAtLeast, OpAtMost}
OrderProgram(a, op, b) == a \o op \o b \o <<"\n">>
OrderPrograms == {OrderProgram(a, op, b) : a \in OrderOperands, op \in OrderOperators, b \in OrderOperands}

(***************************************************************************)
(* The programs of the redeclare suite: `const prophecy K as 1` at the top *)
(* level, in a block or in a spell body, followed in the same scope by two *)
(* statements that name K.                                                 *)
(***************************************************************************)
\* const prophecy K as 1\n
SealK ==
    <<"c", "o", "n", "s", "t", " ", "p", "r", "o", "p", "h", "e", "c", "y", " ", "K", " ",
      "a", "s", " ", "1", "\n">>

\* prophecy reveals true {\n
ScopeBlockOpen ==
    <<"p", "r", "o", "p", "h", "e", "c", "y", " ", "r", "e", "v", "e", "a", "l", "s", " ",
      "t", "r", "u", "e", " ", "{", "\n">>

\* }\n
ScopeBlockClose ==
    <<"}", "\n">>

\* spell f() {\n
ScopeSpellOpen ==
    <<"s", "p", "e", "l", "l", " ", "f", "(", ")", " ", "{", "\n">>

\* }\nf()\n
ScopeSpellClose ==
    <<"}", "\n", "f", "(", ")", "\n">>

\* conjure K as 2\n
AgainConjure ==
    <<"c", "o", "n", "j", "u", "r", "e", " ", "K", " ", "a", "s", " ", "2", "\n">>

\* summon K as 3\n
AgainSummon ==
    <<"s", "u", "m", "m", "o", "n", " ", "K", " ", "a", "s", " ", "3", "\n">>

\* spell K() {\n cast 4\n}\n
AgainSpell ==
    <<"s", "p", "e", "l", "l", " ", "K", "(", ")", " ", "{", "\n", " ", "c", "a", "s", "t",
      " ", "4", "\n", "}", "\n">>

\* const prophecy K as 5\n
AgainConst ==
    <<"c", "o", "n", "s", "t", " ", "p", "r", "o", "p", "h", "e", "c", "y", " ", "K", " ",
      "a", "s", " ", "5", "\n">>

\* transmute K as 6\n
AgainTransmute ==
    <<"t", "r", "a", "n", "s", "m", "u", "t", "e", " ", "K", " ", "a", "s", " ", "6",
      "\n">>

\* vanquish K\n
AgainVanquish ==
    <<"v", "a", "n", "q", "u", "i", "s", "h", " ", "K", "\n">>

\* conjure other as K\n
AgainRead ==
    <<"c", "o", "n", "j", "u", "r", "e", " ", "o", "t", "h", "e", "r", " ", "a", "s", " ",
      "K", "\n">>

\* prophecy reveals true {\n conjure K as 7\n}\n
AgainShadow ==
    <<"p", "r", "o", "p", "h", "e", "c", "y", " ", "r", "e", "v", "e", "a", "l", "s", " ",
      "t", "r", "u", "e", " ", "{", "\n", " ", "c", "o", "n", "j", "u", "r", "e", " ", "K",
      " ", "a", "s", " ", "7", "\n", "}", "\n">>
Redeclarations == {AgainConjure, AgainSummon, AgainSpell, AgainConst}
AgainStatements == Redeclarations \cup {AgainTransmute, AgainVanquish, AgainRead, AgainShadow}
RedeclareGlobal(a, b) == SealK \o a \o b
RedeclareInBlock(a, b) == ScopeBlockOpen \o SealK \o a \o b \o ScopeBlockClose
RedeclareInSpell(a, b) == ScopeSpellOpen \o SealK \o a \o b \o ScopeSpellClose
RedeclarePrograms ==
    {RedeclareGlobal(a, b) : a \in AgainStatements, b \in AgainStatements}
        \cup {RedeclareInBlock(a, b) : a \in AgainStatements, b \in AgainStatements}
        \cup {RedeclareInSpell(a, b) : a \in AgainStatements, b \in AgainStatements}

(***************************************************************************)
(* The programs of the restore suite: a statement that returns, raises an  *)
(* error or raises a control signal, two levels deep in blocks, loops and  *)
(* spell bodies.                                                           *)
(***************************************************************************)
\* conjure n as 0\n
RestoreGlobals ==
    <<"c", "o", "n", "j", "u", "r", "e", " ", "n", " ", "a", "s", " ", "0", "\n">>

\* prophecy reveals true {\n
WrapBlockOpen ==
    <<"p", "r", "o", "p", "h", "e", "c", "y", " ", "r", "e", "v", "e", "a", "l", "s", " ",
      "t", "r", "u", "e", " ", "{", "\n">>

\* }\n
WrapBlockClose ==
    <<"}", "\n">>

\* patrol until n atleast 2 {\ntransmute n as n + 1\n
WrapPatrolOpen ==
    <<"p", "a", "t", "r", "o", "l", " ", "u", "n", "t", "i", "l", " ", "n", " ", "a", "t",
      "l", "e", "a", "s", "t", " ", "2", " ", "{", "\n", "t", "r", "a", "n", "s", "m", "u",
      "t", "e", " ", "n", " ", "a", "s", " ", "n", " ", "+", " ", "1", "\n">>

\* }\n
WrapPatrolClose ==
    <<"}", "\n">>

\* hunt each a in [1, 2] {\n
WrapHuntOpen ==
    <<"h", "u", "n", "t", " ", "e", "a", "c", "h", " ", "a", " ", "i", "n", " ", "[", "1",
      ",", " ", "2", "]", " ", "{", "\n">>

\* }\n
WrapHuntClose ==
    <<"}", "\n">>

\* spell f() {\n
WrapSpellOpen ==
    <<"s", "p", "e", "l", "l", " ", "f", "(", ")", " ", "{", "\n">>

\* }\nf()\n
WrapSpellClose ==
    <<"}", "\n", "f", "(", ")", "\n">>

\* conjure y as 1\n
LeaveNormally ==
    <<"c", "o", "n", "j", "u", "r", "e", " ", "y", " ", "a", "s", " ", "1", "\n">>

\* break\n
LeaveBreak ==
    <<"b", "r", "e", "a", "k", "\n">>

\* continue\n
LeaveContinue ==
    <<"c", "o", "n", "t", "i", "n", "u", "e", "\n">>

\* cast 1\n
LeaveCast ==
    <<"c", "a", "s", "t", " ", "1", "\n">>

\* 1 / 0\n
LeaveForbidden ==
    <<"1", " ", "/", " ", "0", "\n">>

\* nothing\n
LeaveUnknown ==
    <<"n", "o", "t", "h", "i", "n", "g", "\n">>

\* 1 under "s"\n
LeaveTypeError ==
    <<"1", " ", "u", "n", "d", "e", "r", " ", "\"", "s", "\"", "\n">>

\* conjure seen as 1\n
RestoreProbe ==
    <<"c", "o", "n", "j", "u", "r", "e", " ", "s", "e", "e", "n", " ", "a", "s", " ", "1",
      "\n">>

\* conjure done as n\n
RestoreTail ==
    <<"c", "o", "n", "j", "u", "r", "e", " ", "d", "o", "n", "e", " ", "a", "s", " ", "n",
      "\n">>
Wrappers ==
    {<<WrapBlockOpen, WrapBlockClose>>, <<WrapPatrolOpen, WrapPatrolClose>>,
     <<WrapHuntOpen, WrapHuntClose>>, <<WrapSpellOpen, WrapSpellClose>>}
Leavers ==
    {LeaveNormally, LeaveBreak, LeaveContinue, LeaveCast, LeaveForbidden, LeaveUnknown, LeaveTypeError}
RestoreProgram(outer, inner, leaver) ==
    RestoreGlobals \o outer[1] \o inner[1] \o leaver \o inner[2] \o RestoreProbe \o outer[2] \o RestoreTail
RestorePrograms ==
    {RestoreProgram(outer, inner, leaver) : outer \in Wrappers, inner \in Wrappers, leaver \in Leavers}

(***************************************************************************)
(* The programs of the grow suite: a loop over the list L whose body       *)
(* appends to L or removes from it, through L or through its alias M, and  *)
(* counts its executions in n.                                             *)
(***************************************************************************)
\* conjure L as [1, 2]\nconjure M as L\nconjure n as 0\n
GrowGlobals ==
    <<"c", "o", "n", "j", "u", "r", "e", " ", "L", " ", "a", "s", " ", "[", "1", ",", " ",
      "2", "]", "\n", "c", "o", "n", "j", "u", "r", "e", " ", "M", " ", "a", "s", " ", "L",
      "\n", "c", "o", "n", "j", "u", "r", "e", " ", "n", " ", "a", "s", " ", "0", "\n">>

\* hunt each x in L {\n
GrowOpen ==
    <<"h", "u", "n", "t", " ", "e", "a", "c", "h", " ", "x", " ", "i", "n", " ", "L", " ",
      "{", "\n">>

\* }\nn\n
GrowClose ==
    <<"}", "\n", "n", "\n">>

\* transmute n as n + 1\n
BodyCount ==
    <<"t", "r", "a", "n", "s", "m", "u", "t", "e", " ", "n", " ", "a", "s", " ", "n", " ",
      "+", " ", "1", "\n">>

\* prophecy reveals x is 1 { append(L, 9) }\n
BodyAppendOnce ==
    <<"p", "r", "o", "p", "h", "e", "c", "y", " ", "r", "e", "v", "e", "a", "l", "s", " ",
      "x", " ", "i", "s", " ", "1", " ", "{", " ", "a", "p", "p", "e", "n", "d", "(", "L",
      ",", " ", "9", ")", " ", "}", "\n">>

\* prophecy reveals x is 1 { append(M, 8) }\n
BodyAppendAlias ==
    <<"p", "r", "o", "p", "h", "e", "c", "y", " ", "r", "e", "v", "e", "a", "l", "s", " ",
      "x", " ", "i", "s", " ", "1", " ", "{", " ", "a", "p", "p", "e", "n", "d", "(", "M",
      ",", " ", "8", ")", " ", "}", "\n">>

\* append(L, x)\n
BodyAppendAlways ==
    <<"a", "p", "p", "e", "n", "d", "(", "L", ",", " ", "x", ")", "\n">>

\* remove(L, x)\n
BodyRemoveItem ==
    <<"r", "e", "m", "o", "v", "e", "(", "L", ",", " ", "x", ")", "\n">>

\* prophecy reveals x is 1 { remove(M, 2) }\n
BodyRemoveNext ==
    <<"p", "r", "o", "p", "h", "e", "c", "y", " ", "r", "e", "v", "e", "a", "l", "s", " ",
      "x", " ", "i", "s", " ", "1", " ", "{", " ", "r", "e", "m", "o", "v", "e", "(", "M",
      ",", " ", "2", ")", " ", "}", "\n">>

\* remove(L, 2)\n
BodyRemoveTwo ==
    <<"r", "e", "m", "o", "v", "e", "(", "L", ",", " ", "2", ")", "\n">>
GrowBodies ==
    {BodyCount, BodyAppendOnce, BodyAppendAlias, BodyAppendAlways, BodyRemoveItem, BodyRemoveNext, BodyRemoveTwo}
GrowProgram(a, b) == GrowGlobals \o GrowOpen \o BodyCount \o a \o b \o GrowClose
GrowPrograms == {GrowProgram(a, b) : a \in GrowBodies, b \in GrowBodies}

(***************************************************************************)
(* The programs of the cross suite: a loop of the caller calls f, directly *)
(* or through g, and the body of f executes a break or a continue outside  *)
(* every loop of its own, or inside a loop of its own, or returns.         *)
(***************************************************************************)
\* conjure n as 0\nconjure k as 0\n
CrossGlobals ==
    <<"c", "o", "n", "j", "u", "r", "e", " ", "n", " ", "a", "s", " ", "0", "\n", "c", "o",
      "n", "j", "u", "r", "e", " ", "k", " ", "a", "s", " ", "0", "\n">>

\* spell f() {\n
CrossCalleeOpen ==
    <<"s", "p", "e", "l", "l", " ", "f", "(", ")", " ", "{", "\n">>

\* }\nspell g() {\nf()\n}\n
CrossCalleeClose ==
    <<"}", "\n", "s", "p", "e", "l", "l", " ", "g", "(", ")", " ", "{", "\n", "f", "(",
      ")", "\n", "}", "\n">>

\* break\n
BareBreak ==
    <<"b", "r", "e", "a", "k", "\n">>

\* continue\n
BareContinue ==
    <<"c", "o", "n", "t", "i", "n", "u", "e", "\n">>

\* prophecy reveals true { break }\n
BlockBreak ==
    <<"p", "r", "o", "p", "h", "e", "c", "y", " ", "r", "e", "v", "e", "a", "l", "s", " ",
      "t", "r", "u", "e", " ", "{", " ", "b", "r", "e", "a", "k", " ", "}", "\n">>

\* prophecy reveals true { continue }\n
BlockContinue ==
    <<"p", "r", "o", "p", "h", "e", "c", "y", " ", "r", "e", "v", "e", "a", "l", "s", " ",
      "t", "r", "u", "e", " ", "{", " ", "c", "o", "n", "t", "i", "n", "u", "e", " ", "}",
      "\n">>

\* cast 1\n
PlainCast ==
    <<"c", "a", "s", "t", " ", "1", "\n">>

\* hunt each b in [1] { break }\n
OwnLoopBreak ==
    <<"h", "u", "n", "t", " ", "e", "a", "c", "h", " ", "b", " ", "i", "n", " ", "[", "1",
      "]", " ", "{", " ", "b", "r", "e", "a", "k", " ", "}", "\n">>

\* hunt each b in [1] { continue }\n
OwnLoopContinue ==
    <<"h", "u", "n", "t", " ", "e", "a", "c", "h", " ", "b", " ", "i", "n", " ", "[", "1",
      "]", " ", "{", " ", "c", "o", "n", "t", "i", "n", "u", "e", " ", "}", "\n">>

\* hunt each a in [1, 2] {\n
CallerHunt ==
    <<"h", "u", "n", "t", " ", "e", "a", "c", "h", " ", "a", " ", "i", "n", " ", "[", "1",
      ",", " ", "2", "]", " ", "{", "\n">>

\* patrol until k atleast 2 {\ntransmute k as k + 1\n
CallerPatrol ==
    <<"p", "a", "t", "r", "o", "l", " ", "u", "n", "t", "i", "l", " ", "k", " ", "a", "t",
      "l", "e", "a", "s", "t", " ", "2", " ", "{", "\n", "t", "r", "a", "n", "s", "m", "u",
      "t", "e", " ", "k", " ", "a", "s", " ", "k", " ", "+", " ", "1", "\n">>

\* f()\n
SiteStatement ==
    <<"f", "(", ")", "\n">>

\* conjure r as f()\n
SiteValue ==
    <<"c", "o", "n", "j", "u", "r", "e", " ", "r", " ", "a", "s", " ", "f", "(", ")",
      "\n">>

\* prophecy reveals true { f() }\n
SiteBlock ==
    <<"p", "r", "o", "p", "h", "e", "c", "y", " ", "r", "e", "v", "e", "a", "l", "s", " ",
      "t", "r", "u", "e", " ", "{", " ", "f", "(", ")", " ", "}", "\n">>

\* g()\n
SiteThroughG ==
    <<"g", "(", ")", "\n">>

\* transmute n as n + 1\n}\nn\n
CrossClose ==
    <<"t", "r", "a", "n", "s", "m", "u", "t", "e", " ", "n", " ", "a", "s", " ", "n", " ",
      "+", " ", "1", "\n", "}", "\n", "n", "\n">>
EscapingBodies == {BareBreak, BareContinue, BlockBreak, BlockContinue}
ContainedBodies == {PlainCast, OwnLoopBreak, OwnLoopContinue}
CallerLoops == {CallerHunt, CallerPatrol}
DirectSites == {SiteStatement, SiteValue, SiteBlock}
CrossProgram(body, loop, site) ==
    CrossGlobals \o CrossCalleeOpen \o body \o CrossCalleeClose \o loop \o site \o CrossClose
CrossPrograms ==
    {CrossProgram(body, loop, site) :
         body \in EscapingBodies \cup ContainedBodies, loop \in CallerLoops, site \in DirectSites}
        \cup {CrossProgram(body, loop, SiteThroughG) : body \in EscapingBodies, loop \in CallerLoops}

Programs(s) ==
    CASE s = "cast" -> CastPrograms
      [] s = "rebind" -> RebindPrograms
      [] s = "hunt" -> HuntPrograms
      [] s = "nest" -> NestPrograms
      [] s = "frames" -> FramesPrograms
      [] s = "order" -> OrderPrograms
      [] s = "redeclare" -> RedeclarePrograms
      [] s = "restore" -> RestorePrograms
      [] s = "grow" -> GrowPrograms
      [] s = "cross" -> CrossPrograms

\* run() after lexer.tokenize() has returned or raised
RunLexed(lx) ==
    /\ lexer' = lx
    /\ IF lx.state # "done" THEN tokens' = tokens /\ Handled(lx.state)
       ELSE IF \E i \in DOMAIN lx.tokens : lx.tokens[i].type \in UnmodelledTokens
       THEN tokens' = tokens /\ Handled("Unmodelled")
       ELSE tokens' = ParserTokens(lx.tokens) /\ status' = "lexed" /\ diag' = diag

\* run(source): lexer = Lexer(source); tokens = lexer.tokenize()
LexSource ==
    /\ status = "input"
    /\ steps = 0
    /\ \E source \in Programs(suite) : RunLexed(tokenize(source))
    /\ steps' = 1
    /\ interp' = [interp EXCEPT !.fuel = MaxFuel, !.ncalls = 0, !.nloops = 0, !.log = <<>>]
    /\ UNCHANGED <<suite, mode, ast, pc, last, console>>

InitRun(s) ==
    /\ suite = s
    /\ mode = "run"
    /\ tokens = <<EOF>>
    /\ ast = NoProgram
    /\ pc = 1
    /\ interp = register_builtins(NewInterpreter)
    /\ status = "input"
    /\ diag = ""
    /\ last = NoResult
    /\ steps = 0
    /\ lexer = NewLexer(<<>>)
    /\ console = NoConsole

NextRun == LexSource \/ ParseUnit \/ InterpretStatement \/ FinishUnit

SpecCast == InitRun("cast") /\ [][NextRun]_vars
SpecRebind == InitRun("rebind") /\ [][NextRun]_vars
SpecHunt == InitRun("hunt") /\ [][NextRun]_vars
SpecNest == InitRun("nest") /\ [][NextRun]_vars
SpecFrames == InitRun("frames") /\ [][NextRun]_vars
SpecOrder == InitRun("order") /\ [][NextRun]_vars
SpecRedeclare == InitRun("redeclare") /\ [][NextRun]_vars
SpecRestore == InitRun("restore") /\ [][NextRun]_vars
SpecGrow == InitRun("grow") /\ [][NextRun]_vars
SpecCross == InitRun("cross") /\ [][NextRun]_vars

\* run() is over on the source
Ran(source) == lexer.source = source /\ status \notin {"input", "lexed", "parsed"}

\* A unit is executed once the session is past its statements
Executed(unit) == tokens = unit /\ steps > 0 /\ status \notin {"lexed", "parsed"}
Events == {interp.log[i] : i \in DOMAIN interp.log}
Parsed(unit) == tokens = unit /\ steps > 0 /\ status # "lexed"
Globals == interp.envs[1].values

(***************************************************************************)
(* Properties                                                              *)
(***************************************************************************)

\* C1: with a list bound to a and aliased by `conjure b as a`, the statement
\* `transmute b[i] as v`, written without parentheses around the target, is
\* accepted by the parser as an IndexAssign, and once it is executed the
\* shared list holds v at i, so that a read a[i] yields v.
C1_UnparenthesisedTargets == {<<SrcSetB0, 0, 99>>, <<SrcSetB2, 2, 7>>}
C1_IndexAssignWithoutParentheses ==
    \A u \in C1_UnparenthesisedTargets :
        Parsed(u[1]) =>
            /\ ~ast.err
            /\ ast.node.statements[1].type = "IndexAssign"
            /\ (Executed(u[1]) /\ {"a", "b"} \subseteq DOMAIN Globals /\ Globals["b"] = Globals["a"]
                  /\ Globals["a"].t = "list")
                   => interp.heap[Globals["a"].v][u[2] + 1] = IntV(u[3])

\* C2: a name declared with `const prophecy` in a scope S, and declared in no
\* other scope, cannot be changed: every `transmute` and every `vanquish` of
\* it executed in S or in a scope whose parent chain reaches S raises
\* ProphecyViolation and changes no environment, and the name stays bound in
\* S to its declared value (1, for every constant of the suite) and stays
\* flagged constant.
C2_ConstantImmutability ==
    /\ \A e \in Events :
           (e.ev \in {"assign", "delete"} /\ e.holders # {}) =>
               e.sig = "ProphecyViolation" /\ e.unchanged
    /\ \A i \in DOMAIN interp.envs :
           \A n \in {"K", "C"} :
               (\/ n \in interp.envs[i].constants
                \/ n \in DOMAIN interp.envs[i].values) =>
                   /\ n \in interp.envs[i].constants
                   /\ n \in DOMAIN interp.envs[i].values
                   /\ interp.envs[i].values[n] = IntV(1)

\* C2 happens: a `vanquish` of a constant, executed two scopes below the one
\* that declares it, was refused
C2_Witness ==
    \E e \in Events :
        /\ e.ev = "delete" /\ e.holders # {} /\ e.sig = "ProphecyViolation"
        /\ e.env \notin e.holders
        /\ interp.envs[e.env].parent \notin e.holders
        /\ \A h \in e.holders : e.name \in DOMAIN interp.envs[h].values

\* C3: run() never reports a control signal (SlayerInterrupt, PatrolContinue,
\* SpellReturn) through its error handler, whatever the program does.
C3_NoControlSignalDiagnostic ==
    mode = "run" => diag \notin {"SlayerInterrupt", "PatrolContinue", "SpellReturn"}

\* C4: `and` and `or` short-circuit and yield a Bool: when the left operand of
\* `and` is falsy, or the left operand of `or` is truthy, the evaluation of
\* the right operand makes no call and changes no binding.
C4_ShortCircuit ==
    \A e \in Events :
        e.ev = "logical" =>
            /\ e.result.t = "bool"
            /\ ((e.op = "and" /\ ~e.left_truthy) \/ (e.op = "or" /\ e.left_truthy)) =>
                   e.right_calls = 0 /\ ~e.right_changed

\* C5: a call of a user function whose body ran to its end without `cast`
\* yields Void, whatever the last statement of the body was.
C5_NoCastYieldsVoid ==
    \A e \in Events : (e.ev = "call" /\ ~e.by_cast) => e.val = None

\* C6: unary minus binds looser than "**": `-a ** b` parses to
\* UnaryOp('-', BinaryOp(a, '**', b)) and evaluates to -(a ** b).
C6_UnaryMinusLooserThanPower ==
    \A a \in Operands, b \in Operands :
        Parsed(<<Tok("MINUS"), INT(a), Tok("POWER"), INT(b), EOF>>) =>
            /\ ~ast.err
            /\ ast.node = Program(<<ExprStmt(UnaryOp("-",
                              BinaryOp(Literal(IntV(a)), "**", Literal(IntV(b)))))>>)
            /\ (status \in {"exit0", "input"} /\ last.sig = "none") => last.val = IntV(-(a ^ b))

\* The grammar's binding strength of each binary operator, by token type, and
\* the operator string of the node
Precedence(token_type) ==
    CASE token_type = "OR" -> 1
      [] token_type = "AND" -> 2
      [] token_type \in {"IS", "ISNT", "EXCEEDS", "UNDER", "ATLEAST", "ATMOST"} -> 3
      [] token_type \in {"PLUS", "MINUS"} -> 4
      [] token_type \in {"STAR", "SLASH", "PERCENT"} -> 5
      [] token_type = "POWER" -> 6
OperatorOf(token_type) ==
    CASE token_type = "OR" -> "or"
      [] token_type = "AND" -> "and"
      [] token_type = "IS" -> "is"
      [] token_type = "ISNT" -> "isnt"
      [] token_type = "EXCEEDS" -> "exceeds"
      [] token_type = "UNDER" -> "under"
      [] token_type = "ATLEAST" -> "atleast"
      [] token_type = "ATMOST" -> "atmost"
      [] token_type = "PLUS" -> "+"
      [] token_type = "MINUS" -> "-"
      [] token_type = "STAR" -> "*"
      [] token_type = "SLASH" -> "/"
      [] token_type = "PERCENT" -> "%"
      [] token_type = "POWER" -> "**"
\* `a op1 b op2 c` grouped by precedence; operators of one level group to the
\* left, except "**", which groups to the right
Grouped(a, op1, b, op2, c) ==
    IF \/ Precedence(op1) > Precedence(op2)
       \/ Precedence(op1) = Precedence(op2) /\ op1 # "POWER"
    THEN BinaryOp(BinaryOp(Literal(IntV(a)), OperatorOf(op1), Literal(IntV(b))),
                  OperatorOf(op2), Literal(IntV(c)))
    ELSE BinaryOp(Literal(IntV(a)), OperatorOf(op1),
                  BinaryOp(Literal(IntV(b)), OperatorOf(op2), Literal(IntV(c))))
IsChain(toks) ==
    /\ Len(toks) = 6
    /\ \A i \in {1, 3, 5} : toks[i].type = "INTEGER"
    /\ \A i \in {2, 4} : toks[i].type \in BinaryOperators

\* C7: binary operators group by the grammar's precedence and associativity
\* for all operands a, b, c: `a + b * c` is a + (b * c), `a ** b ** c` is
\* a ** (b ** c), `a - b - c` is (a - b) - c, `a is b is c` is (a is b) is c,
\* and likewise for every other pair of binary operators.
C7_PrecedenceAndAssociativity ==
    (IsChain(tokens) /\ Parsed(tokens)) =>
        /\ ~ast.err
        /\ ast.node = Program(<<ExprStmt(Grouped(tokens[1].value, tokens[2].type,
                                                  tokens[3].value, tokens[4].type,
                                                  tokens[5].value))>>)

\* C7 happens: `2 ** 3 ** 2` was parsed and evaluated, to 2 ** 9
C7_Witness ==
    /\ Executed(<<INT(2), Tok("POWER"), INT(3), Tok("POWER"), INT(2), EOF>>)
    /\ last = [sig |-> "none", val |-> IntV(512)]

\* The function a global name is bound to, the environment it captured and
\* the value of the local c in that environment (-1 when c is not there)
IsSpell(st, name) ==
    name \in DOMAIN st.envs[1].values /\ st.envs[1].values[name].t = "func"
ClosureOf(st, name) == st.funcs[st.envs[1].values[name].v].closure
CounterOf(st, name) ==
    LET values == st.envs[ClosureOf(st, name)].values IN
    IF "c" \in DOMAIN values /\ values["c"].t = "int" THEN values["c"].v ELSE -1

\* A closure is made: `conjure <name> as make()` binds the name to a function
\* over the locals of this invocation of make, a new environment where c is 0
C8_Made(unit, name) ==
    (tokens = unit /\ status = "parsed" /\ pc = 1 /\ IsSpell(interp, "make")) =>
        /\ last'.sig = "none"
        /\ IsSpell(interp', name)
        /\ ClosureOf(interp', name) \notin DOMAIN interp.envs
        /\ CounterOf(interp', name) = 0
\* A closure is called: `<name>()` returns one more than the c of its
\* environment held, leaves that value there, and leaves the c of the other
\* closure alone
C8_Called(unit, name, other) ==
    (tokens = unit /\ status = "parsed" /\ pc = 1 /\ IsSpell(interp, name)) =>
        /\ last' = [sig |-> "none", val |-> IntV(CounterOf(interp, name) + 1)]
        /\ CounterOf(interp', name) = CounterOf(interp, name) + 1
        /\ IsSpell(interp, other) =>
               /\ ClosureOf(interp, other) # ClosureOf(interp, name)
               /\ CounterOf(interp', other) = CounterOf(interp, other)

\* C8: a function declared inside another reads and rebinds the locals of the
\* enclosing invocation: the counter closure made by make() returns 1, 2, 3,
\* ... over successive calls after make() has returned, and the closures of
\* two calls of make() do not share the local.
C8_Closures ==
    [][/\ C8_Made(SrcMakeB, "b") /\ C8_Made(SrcMakeD, "d")
       /\ C8_Called(SrcCallB, "b", "d") /\ C8_Called(SrcCallD, "d", "b")]_vars

\* C8 happens: the third call of b returned 3 while the closure d, made by
\* another call of make, still holds its 0
C8_Witness ==
    /\ Executed(SrcCallB)
    /\ last = [sig |-> "none", val |-> IntV(3)]
    /\ IsSpell(interp, "d")
    /\ CounterOf(interp, "d") = 0

\* C9: when a conditional branch, a loop-body iteration or a function body
\* has ended, normally or through break, continue or cast, no name bound in
\* it has changed what the enclosing scope sees: a name that had no outer
\* binding is still undefined there (reading it raises UnknownIncantation),
\* and an outer binding of the same name has the value it had.
C9_ScopeHygiene ==
    /\ \A e \in Events : e.ev = "scope" => e.leaked = {}
    /\ (Executed(SrcReadY) \/ Executed(SrcReadI) \/ Executed(SrcCallLeak)) =>
           last.sig = "UnknownIncantation"
    /\ "x" \in DOMAIN Globals => Globals["x"] = IntV(1)
    /\ (Executed(SrcReadX) /\ last.sig = "none") => last.val = IntV(1)
    /\ (Executed(SrcCallNested) /\ last.sig = "none") => last.val = IntV(10)

\* C9 happens: a loop-body iteration that shadowed the global x and
\* introduced y was left by break
C9_Witness ==
    /\ Executed(SrcWhileBreak)
    /\ \E e \in Events :
           /\ e.ev = "scope" /\ e.how = "SlayerInterrupt"
           /\ "x" \in e.shadowed
           /\ "y" \in e.introduced \ e.shadowed

\* The events of one loop, in order
LoopEvents(loop) ==
    SelectSeq(interp.log, LAMBDA e : e.ev \in {"cond", "body", "end"} /\ e.loop = loop)
Falsy(e) == e.ev = "cond" /\ ~e.truthy
Truthy(e) == e.ev = "cond" /\ e.truthy
Again(e) == e.ev = "end" /\ e.how \in {"none", "PatrolContinue"}

\* C10: `patrol until C { body }` evaluates C before each iteration and runs
\* the body once for each falsy evaluation of C that precedes the first truthy
\* one: the body starts only right after a falsy evaluation, every falsy
\* evaluation is followed by the body, an iteration that ended normally or by
\* `continue` is followed by an evaluation of C, and nothing follows a truthy
\* evaluation; so a loop that C ended ran its body as many times as C was
\* falsy, zero times when C was truthy at entry.
C10_LoopSemantics ==
    \A loop \in 1 .. interp.nloops :
        LET evs == LoopEvents(loop)
            n == Len(evs)
        IN /\ n > 0 => evs[1].ev = "cond"
           /\ \A i \in 1 .. n :
                  /\ evs[i].ev = "body" => i > 1 /\ Falsy(evs[i - 1])
                  /\ (Falsy(evs[i]) /\ i < n) => evs[i + 1].ev = "body"
                  /\ (evs[i].ev = "body" /\ i < n) => evs[i + 1].ev = "end"
                  /\ (Again(evs[i]) /\ i < n) => evs[i + 1].ev = "cond"
                  /\ (evs[i].ev = "end" /\ ~Again(evs[i])) => i = n
                  /\ Truthy(evs[i]) => i = n
           /\ (n > 0 /\ Truthy(evs[n])) =>
                  Cardinality({i \in 1 .. n : evs[i].ev = "body"}) =
                      Cardinality({i \in 1 .. n : Falsy(evs[i])})

\* C10 happens: a loop whose iterations ended by `continue` ran its body
\* twice and stopped at the third evaluation of C, the first truthy one
C10_Witness ==
    \E loop \in 1 .. interp.nloops :
        LET evs == LoopEvents(loop) IN
        /\ Len(evs) = 7
        /\ Truthy(evs[7])
        /\ evs[3].how = "PatrolContinue" /\ evs[6].how = "PatrolContinue"

(***************************************************************************)
(* C11.  Newlines and bracket nesting.                                     *)
(***************************************************************************)
Linefeeds == {p \in 0 .. Len(lexer.source) - 1 : lexer.source[p + 1] = "\n"}
NewlinesAt(p) ==
    {i \in DOMAIN lexer.tokens : lexer.tokens[i].type = "NEWLINE" /\ lexer.tokens[i].at = p}

\* The nesting depth a sequence of tokens leaves: opening bracket tokens
\* minus closing bracket tokens, never below zero
RECURSIVE DepthAfter(_)
DepthAfter(toks) ==
    IF toks = <<>> THEN 0
    ELSE LET before == DepthAfter(SubSeq(toks, 1, Len(toks) - 1))
             type == toks[Len(toks)].type
         IN  IF type \in {"LPAREN", "LBRACKET", "LBRACE"} THEN before + 1
             ELSE IF type \in {"RPAREN", "RBRACKET", "RBRACE"} /\ before > 0 THEN before - 1
             ELSE before
IsBefore(token, p) == token.at < p
DepthAt(p) == DepthAfter(SelectSeq(lexer.tokens, LAMBDA token : IsBefore(token, p)))

\* C11 (as amended): for every linefeed the lexer reads outside string
\* literals and comments, exactly one NEWLINE token is emitted when the
\* bracket depth at the linefeed -- opening bracket tokens minus closing
\* bracket tokens before it, saturating at zero -- is zero, and none
\* otherwise; a linefeed inside a string literal or a comment emits none.
C11_NewlineIffDepthZero ==
    /\ \A p \in lexer.met :
          /\ p \in Linefeeds
          /\ Cardinality(NewlinesAt(p)) = (IF DepthAt(p) = 0 THEN 1 ELSE 0)
    /\ \A p \in Linefeeds \ lexer.met : NewlinesAt(p) = {}

\* A finished run with a linefeed tokenized at depth zero, one suppressed
\* inside brackets, and one tokenized after a closing bracket met at depth zero
C11_Witness ==
    /\ lexer.state = "done"
    /\ \E p, q, r \in lexer.met :
          /\ NewlinesAt(p) # {} /\ DepthAt(p) = 0
          /\ NewlinesAt(q) = {} /\ DepthAt(q) > 0
          /\ r > 0 /\ lexer.source[r] = ")" /\ DepthAt(r - 1) = 0 /\ NewlinesAt(r) # {}

\* C11 (as stated): a NEWLINE token is emitted for a linefeed character of
\* the source if and only if the bracket depth is zero at that linefeed.
C11_NewlineForEveryLinefeed ==
    lexer.state = "done" =>
        \A p \in Linefeeds : (NewlinesAt(p) # {}) <=> (DepthAt(p) = 0)

(***************************************************************************)
(* C12.  Token positions.                                                  *)
(***************************************************************************)
\* The 1-based line and column of the character at offset p of the source
LineOf(p) == 1 + Cardinality({q \in Linefeeds : q < p})
LineStart(p) ==
    IF \E q \in Linefeeds : q < p
    THEN 1 + CHOOSE q \in Linefeeds : q < p /\ \A r \in Linefeeds : r < p => r <= q
    ELSE 0
ColumnOf(p) == p - LineStart(p) + 1

\* C12: the (line, column) recorded in every token the lexer emits is the
\* 1-based line and column of the first character of its lexeme, also for a
\* string literal that spans several lines and for the tokens after it or
\* after a multi-line comment.  (EOF, whose lexeme is empty, is left out.)
C12_TokenPositions ==
    \A i \in DOMAIN lexer.tokens :
        LET token == lexer.tokens[i]
        IN  token.type # "EOF" =>
                /\ token.line = LineOf(token.at)
                /\ token.column = ColumnOf(token.at)

(***************************************************************************)
(* C13.  The outcomes of tokenize().                                       *)
(***************************************************************************)
\* C13: tokenize() ends in one of two ways: it raises DarkMagicDetected, or
\* it returns a token list with exactly one EOF token, the last element.
C13_TokenizeOutcome ==
    /\ lexer.state \in {"scanning", "done", "DarkMagicDetected"}
    /\ lexer.state = "done" =>
          /\ lexer.tokens # <<>>
          /\ \A i \in DOMAIN lexer.tokens :
                (lexer.tokens[i].type = "EOF") <=> (i = Len(lexer.tokens))

(***************************************************************************)
(* C14.  Division and modulo by zero.                                      *)
(***************************************************************************)
\* C14: for numeric operands a and b with b equal to zero, `a / b` and
\* `a % b` each raise ForbiddenMagic: no other exception and no value.
C14_ZeroDivisorIsForbiddenMagic ==
    \A a \in ZeroOperands, b \in {INT(0), Tok("FALSE")}, op \in {"SLASH", "PERCENT"} :
        Executed(<<a, Tok(op), b, EOF>>) => last.sig = "ForbiddenMagic"

(***************************************************************************)
(* C15.  The REPL's buffered multi-line mode.                              *)
(***************************************************************************)
\* Opening braces minus closing braces in a text
Braces(text) ==
    Cardinality({i \in DOMAIN text : text[i] = "{"})
        - Cardinality({i \in DOMAIN text : text[i] = "}"})

\* C15: a line whose last non-blank character is "{" puts the REPL in
\* buffered mode (the line is kept and nothing is submitted); in buffered
\* mode every further line is appended to the buffer, and the whole buffer is
\* submitted as one unit only by a line that opens with "}" at column zero
\* and balances the braces, or by an empty line while the braces balance.
C15_BraceOpensBufferedMode ==
    steps > 0 =>
        /\ (console.before = <<>> /\ endswith(rstrip(console.line), "{"))
               => (console.buffer = <<console.line>> /\ console.units = <<>>)
        /\ (console.before # <<>> /\ console.units = <<>>)
               => console.buffer = Append(console.before, console.line)
        /\ (console.before # <<>> /\ console.units # <<>>)
               => /\ Len(console.units) = 1
                  /\ Braces(console.units[1]) = 0
                  /\ IF strip(console.line) = <<>>
                     THEN console.units[1] = join_lines(console.before)
                     ELSE /\ startswith(console.line, <<"}">>)
                          /\ console.units[1] = join_lines(Append(console.before, console.line))

(***************************************************************************)
(* C16.  The REPL after a unit that fails.                                 *)
(***************************************************************************)
\* C16: when a unit fails in the lexer, the parser or the interpreter, with
\* any exception, the REPL prints the error and is back at its prompt, and
\* every global binding made before the turn is still there with its value.
\* (Status "exit0" is the user ending the session at a later prompt.)
C16_ReplSurvivesFailure ==
    (/\ steps > 0 /\ console.units # <<>>
     /\ last.sig \notin {"none", "Hung", "Unmodelled"}
     /\ status # "exit0")
        => /\ status = "input"
           /\ diag = last.sig
           /\ \A name \in DOMAIN console.globals :
                  name \in DOMAIN Globals /\ Globals[name] = console.globals[name]

(***************************************************************************)
(* C17.  Printing a value that contains itself.                            *)
(***************************************************************************)
\* The lists a list holds, and the lists reached from a set of lists in at
\* most n steps
ListsIn(st, ref) ==
    {st.heap[ref][i].v : i \in {j \in DOMAIN st.heap[ref] : st.heap[ref][j].t = "list"}}
RECURSIVE ListsWithin(_, _, _)
ListsWithin(st, refs, n) ==
    IF n = 0 THEN refs
    ELSE ListsWithin(st, refs \cup UNION {ListsIn(st, ref) : ref \in refs}, n - 1)
ContainsItself(st, value) ==
    /\ value.t = "list"
    /\ value.v \in ListsWithin(st, ListsIn(st, value.v), Len(st.heap))

\* C17: when the value of a unit is a list that contains itself, directly or
\* through other lists, format_value() returns a text for it (the cycle
\* elided), and no exception.
C17_FormatValueOfCycleReturns ==
    (steps > 0 /\ console.units # <<>> /\ ContainsItself(interp, last.val))
        => (last.sig = "none" /\ console.printed # "")

(***************************************************************************)
(* C18.  Constants under a nearer binding of the same name.                *)
(***************************************************************************)
\* C18: assign(name) and delete(name) raise ProphecyViolation whenever an
\* environment on the chain from the current one to the root flags the name
\* constant, also when a nearer environment binds the same name without the
\* flag, and then no binding of any environment is changed or removed.
C18_ConstantAnywhereOnChain ==
    \A i \in DOMAIN interp.log :
        LET e == interp.log[i]
        IN  (e.ev \in {"assign", "delete"} /\ e.holders # {})
                => (e.sig = "ProphecyViolation" /\ e.unchanged)

(***************************************************************************)
(* C20.  Index assignment out of range.                                    *)
(***************************************************************************)
\* The list bound to the global a, when there is one
ListA == interp.heap[Globals["a"].v]

\* C20: on the list a of three elements, reading a[i] for i = 3, -1, -4
\* raises ForbiddenMagic, and so does assigning to a[i], which leaves the
\* list as it was: three elements, the second and third of which no unit of
\* the suite may change.
C20_IndexAssignOutOfRange ==
    "a" \in DOMAIN Globals =>
        /\ \A unit \in {SrcIndexGetPast, SrcIndexGetLast, SrcIndexGetBefore} :
               Executed(unit) => last.sig = "ForbiddenMagic"
        /\ \A unit \in {SrcIndexSetPast, SrcIndexSetLast, SrcIndexSetBefore} :
               Executed(unit) => last.sig = "ForbiddenMagic"
        /\ Len(ListA) = 3 /\ ListA[2] = IntV(2) /\ ListA[3] = IntV(3)

(***************************************************************************)
(* C19.  A `cast` alone on its line.                                       *)
(***************************************************************************)
CallsOfF == {i \in DOMAIN interp.log : interp.log[i].ev = "call" /\ interp.log[i].name = "f"}

\* C19: when `cast` is the last word of its line, the call returns Void
\* whatever statement the next line of the body holds: that statement is not
\* taken for the value of the cast (and, coming after the cast, is not run).
C19_BareCastReturnsVoid ==
    \A following \in CastStatements :
        (Ran(CastOnOwnLine(following)) \/ Ran(CastAfterSetup(following)))
            => /\ status = "exit0"
               /\ CallsOfF # {}
               /\ \A i \in CallsOfF : interp.log[i].by_cast /\ interp.log[i].val = None
               /\ Env_get(interp, 1, "r") = [sig |-> "none", val |-> None]

(***************************************************************************)
(* C21.  assign() and delete() on a name that is constant nowhere.         *)
(***************************************************************************)
\* The environments of the chain that starts at e, nearest first, that bind
\* the name
RECURSIVE Binders(_, _, _)
Binders(envs, e, name) ==
    (IF name \in DOMAIN envs[e].values THEN <<e>> ELSE <<>>)
        \o (IF envs[e].parent # 0 THEN Binders(envs, envs[e].parent, name) ELSE <<>>)
Rebinds(e) == e.ev \in {"assign", "delete"} /\ e.holders = {}
\* The environments with the name rebound, or unbound, in the one environment b
Rebound(e, b) ==
    [e.before EXCEPT ![b].values =
        IF e.ev = "assign" THEN [n \in DOMAIN @ |-> IF n = e.name THEN e.value ELSE @[n]]
        ELSE [n \in (DOMAIN @) \ {e.name} |-> @[n]]]

\* C21: for a name that no environment of the chain flags constant,
\* `transmute` rebinds and `vanquish` removes the binding in the nearest
\* environment of the chain that binds the name, and every other environment
\* is as it was, so that a farther binding of the name is what a lookup finds
\* after the vanquish; when no environment of the chain binds the name the
\* statement raises UnknownIncantation and every environment is as it was.
C21_NearestBindingOnly ==
    \A e \in Events :
        Rebinds(e) =>
            LET binders == Binders(e.before, e.env, e.name) IN
            IF binders = <<>> THEN e.sig = "UnknownIncantation" /\ e.after = e.before
            ELSE /\ e.sig = "none"
                 /\ e.after = Rebound(e, binders[1])
                 /\ (e.ev = "delete" /\ Len(binders) > 1) =>
                        Env_get([envs |-> e.after], e.env, e.name) =
                            [sig |-> "none", val |-> e.before[binders[2]].values[e.name]]

\* C21 happens: a vanquish from a nested block removed the nearer of two
\* bindings of x, and a later transmute then reached the global x
C21_Witness ==
    \E i, j \in DOMAIN interp.log :
        /\ i < j
        /\ interp.log[i].ev = "delete" /\ interp.log[i].sig = "none"
        /\ Len(Binders(interp.log[i].before, interp.log[i].env, "x")) = 2
        /\ interp.log[i].env # Binders(interp.log[i].before, interp.log[i].env, "x")[1]
        /\ interp.log[j].ev = "assign" /\ interp.log[j].sig = "none"
        /\ interp.log[j].env # 1
        /\ Binders(interp.log[j].before, interp.log[j].env, "x") = <<1>>

(***************************************************************************)
(* C22.  The environment of each iteration of `hunt each`.                 *)
(***************************************************************************)
Iterations == {k \in DOMAIN interp.log : interp.log[k].ev = "iter"}

\* C22: each iteration of `hunt each X in E` runs its body in an environment
\* of its own, made for it as a child of the environment of the loop and
\* binding X to the element and nothing else, so that no transmute or conjure
\* of an earlier iteration shows in it; functions declared in different
\* iterations capture different environments (called after the loop, each
\* returns the X of its iteration); and after the loop X is undefined unless
\* it was bound outside the loop, and then has that binding.  (In the suite
\* the body reads y in the iterations after the first: y is bound there only
\* when the same iteration declared it before.)
C22_FreshEnvironmentPerIteration ==
    /\ \A k \in Iterations :
           LET e == interp.log[k] IN
           /\ e.env \notin e.existing
           /\ e.parent = e.from
           /\ e.values = [n \in {e.variable} |-> e.item]
           /\ \A j \in Iterations : j # k => interp.log[j].env # e.env
    /\ \A a, b \in HuntOps :
           /\ Ran(HuntProgram(<<>>, a, b, TailReadVar)) =>
                  status = "exit1" /\ diag = "UnknownIncantation"
           /\ (Ran(HuntProgram(HuntOuterVar, a, b, TailReadVar)) /\ status = "exit0") =>
                  /\ last.sig = "none"
                  /\ HuntDelete \notin {a, b} => last.val = IntV(7)
    /\ \A outer \in {<<>>, HuntOuterVar}, b \in {HuntDeclare, HuntSum, HuntSetVar} :
           (Ran(HuntProgram(outer, HuntCapture, b, TailCalls))
                \/ Ran(HuntProgram(outer, b, HuntCapture, TailCalls))) =>
               /\ status = "exit0"
               /\ last = [sig |-> "none", val |-> IntV(IF b = HuntSetVar THEN 24 ELSE 4)]
    /\ \A outer \in {<<>>, HuntOuterVar}, a, b \in HuntOps :
           (/\ HuntReadLater \in {a, b}
            /\ <<a, b>> # <<HuntDeclare, HuntReadLater>>
            /\ Ran(HuntProgram(outer, a, b, TailReadSum))) =>
               status = "exit1" /\ diag = "UnknownIncantation"

\* C22 happens: three iterations each rebound their i and declared a function,
\* and the functions of the first and the third returned 11 and 13 afterwards
C22_Witness ==
    /\ Ran(HuntProgram(<<>>, HuntSetVar, HuntCapture, TailCalls))
    /\ Cardinality(Iterations) = 3
    /\ last = [sig |-> "none", val |-> IntV(24)]

(***************************************************************************)
(* C23.  break and continue in nested loops.                               *)
(***************************************************************************)
\* The loops whose body is running after the first k events of the log,
\* outermost first
RECURSIVE OpenLoops(_)
OpenLoops(k) ==
    IF k = 0 THEN <<>>
    ELSE LET open == OpenLoops(k - 1) IN
         IF interp.log[k].ev \in {"body", "iter"} THEN Append(open, interp.log[k].loop)
         ELSE IF interp.log[k].ev \in {"end", "iter_end"} THEN SubSeq(open, 1, Len(open) - 1)
         ELSE open
LoopSteps == {"cond", "body", "end", "hunt", "iter", "iter_end", "signal"}
Signals == {"SlayerInterrupt", "PatrolContinue"}
\* the next step of a loop, or a signal, after event k; 0 when there is none
StepAfter(k) ==
    LET later == {j \in DOMAIN interp.log : j > k /\ interp.log[j].ev \in LoopSteps}
    IN IF later = {} THEN 0 ELSE CHOOSE j \in later : \A i \in later : j <= i
\* the next step of the given loop after event k; 0 when there is none
LoopStepAfter(k, loop) ==
    LET later == {j \in DOMAIN interp.log :
                     /\ j > k
                     /\ interp.log[j].ev \in LoopSteps \ {"signal"}
                     /\ interp.log[j].loop = loop}
    IN IF later = {} THEN 0 ELSE CHOOSE j \in later : \A i \in later : j <= i
\* the iterations of the inner body a statement lets reach the count, and
\* the inner loops run and outer counts made with a statement in the outer body
InnerRuns(s) ==
    CASE s = InnerNothing -> 2
      [] s \in {InnerContinueAt1, InnerBreakAt2, InnerDeepContinueAt1} -> 1
      [] s \in {InnerBreak, InnerContinue, InnerBreakAt1, InnerElseBreak} -> 0
OuterRuns(t) == IF t = OuterBreakAt1 THEN 1 ELSE 2
OuterCounts(t) ==
    CASE t = OuterNothing -> 2
      [] t = OuterContinueAt1 -> 1
      [] t = OuterBreakAt1 -> 0

\* C23: a break or continue executed while loops are running ends the body of
\* the innermost of them, and of no other: the next thing any loop does is
\* that this innermost loop takes the signal; after a break that loop does
\* nothing more, after a continue its next step is the evaluation of its
\* condition (patrol until) or its next element (hunt each); the loops
\* around it are still running; and no loop takes a signal it was not sent
\* this way.  So in the programs of the suite the counts n and m are those
\* of an outer loop that went on, also when the statement sits in
\* conditional blocks of the inner body.
C23_InnermostLoopOnly ==
    /\ \A k \in DOMAIN interp.log :
           (interp.log[k].ev = "signal" /\ OpenLoops(k) # <<>>) =>
               LET open == OpenLoops(k)
                   loop == open[Len(open)]
                   j == StepAfter(k)
               IN /\ j # 0
                  /\ interp.log[j].ev \in {"end", "iter_end"}
                  /\ interp.log[j].loop = loop
                  /\ interp.log[j].how = interp.log[k].how
                  /\ OpenLoops(j) = SubSeq(open, 1, Len(open) - 1)
                  /\ interp.log[k].how = "SlayerInterrupt" => LoopStepAfter(j, loop) = 0
                  /\ (interp.log[k].how = "PatrolContinue" /\ LoopStepAfter(j, loop) # 0) =>
                         /\ StepAfter(j) = LoopStepAfter(j, loop)
                         /\ interp.log[StepAfter(j)].ev \in {"cond", "iter"}
    /\ \A j \in DOMAIN interp.log :
           (interp.log[j].ev \in {"end", "iter_end"} /\ interp.log[j].how \in Signals) =>
               \E k \in 1 .. j - 1 : interp.log[k].ev = "signal" /\ StepAfter(k) = j
    /\ \A outer \in OuterLoops, inner \in InnerLoops, s \in InnerStatements,
              t \in OuterStatements :
           Ran(NestProgram(outer, inner, s, t)) =>
               /\ status = "exit0"
               /\ last = [sig |-> "none",
                          val |-> IntV(InnerRuns(s) * OuterRuns(t) * 10 + OuterCounts(t))]
    /\ \A inner \in InnerLoops, s \in InnerStatements :
           Ran(DeepProgram(inner, s)) =>
               /\ status = "exit0"
               /\ last = [sig |-> "none", val |-> IntV(InnerRuns(s) * 10 + 3)]

\* C23 happens: in a patrol until inside a hunt each, a continue two
\* conditional blocks down skipped the count of the first inner iteration
\* only, and both outer iterations ran to their end
C23_Witness ==
    /\ Ran(NestProgram(OuterHunt, InnerPatrol, InnerDeepContinueAt1, OuterNothing))
    /\ last = [sig |-> "none", val |-> IntV(22)]
    /\ Cardinality({k \in DOMAIN interp.log : interp.log[k].ev = "signal"}) = 2
    /\ \A k \in DOMAIN interp.log : interp.log[k].ev = "signal" => Len(OpenLoops(k)) = 2

(***************************************************************************)
(* C24.  The environment of an invocation.                                 *)
(***************************************************************************)
Invocations == {k \in DOMAIN interp.log : interp.log[k].ev = "invoke"}
\* what g returns to f when called with 2, and what f then returns
CalleeValue(global, callee) ==
    CASE callee = CalleeReadsP -> 2
      [] callee = CalleeReadsV /\ global = FramesGlobalV -> 1
      [] OTHER -> -1
CallerValue(site, value) == IF site = CallThenUse THEN 10 + value ELSE value

\* C24: the body of a user function runs in a new environment, made for this
\* invocation, whose parent is the environment the function captured at its
\* declaration and which binds the parameters to the arguments and nothing
\* else: a local of the calling function or block is undefined in the callee
\* (reading it raises UnknownIncantation) unless it is on the captured chain,
\* and an invocation, also of the function that is calling, leaves the
\* parameter bindings of the invocations in progress as they are.
C24_LexicalScopeAndOwnFrame ==
    /\ \A k \in Invocations :
           LET e == interp.log[k] IN
           /\ e.env \notin e.existing
           /\ e.parent = e.closure
           /\ DOMAIN e.values = {e.params[i] : i \in DOMAIN e.params}
           /\ \A i \in DOMAIN e.params : e.values[e.params[i]] = e.arguments[i]
           /\ \A j \in Invocations : j # k => interp.log[j].env # e.env
    /\ \A global \in {<<>>, FramesGlobalV}, callee \in Callees, site \in CallSites :
           Ran(FramesProgram(global, callee, site)) =>
               IF CalleeValue(global, callee) = -1
               THEN status = "exit1" /\ diag = "UnknownIncantation"
               ELSE /\ status = "exit0"
                    /\ last = [sig |-> "none",
                               val |-> IntV(CallerValue(site, CalleeValue(global, callee)))]
    /\ \A recurse \in {RecursePlain, RecurseRebind}, n \in 0 .. MaxDepth :
           Ran(recurse \o CallSum(n)) =>
               /\ status = "exit0"
               /\ last = [sig |-> "none", val |-> IntV((n * (n + 1)) \div 2)]

\* C24 happens: four invocations of sum were in progress at once, each
\* rebound its own k, and the outermost returned 3 + 2 + 1
C24_Witness ==
    /\ Ran(RecurseRebind \o CallSum(3))
    /\ Cardinality(Invocations) = 4
    /\ last = [sig |-> "none", val |-> IntV(6)]

(***************************************************************************)
(* C25.  Backslashes in string literals.                                   *)
(***************************************************************************)
\* The value of the string literal whose characters start at position p of
\* the source (counted from 1, after the opening quote), read independently
\* of the lexer: the escapes \n, \t, \r, \\ and backslash-quote stand for one
\* character; a backslash before any other character is kept with it (keep)
\* or dropped
RECURSIVE Unescaped(_, _, _, _)
Unescaped(p, quote, keep, value) ==
    IF p > Len(lexer.source) \/ lexer.source[p] = quote THEN value
    ELSE IF lexer.source[p] = "\\" /\ p < Len(lexer.source)
    THEN LET next == lexer.source[p + 1] IN
         IF next = "n" THEN Unescaped(p + 2, quote, keep, value \o "\n")
         ELSE IF next = "t" THEN Unescaped(p + 2, quote, keep, value \o "\t")
         ELSE IF next = "r" THEN Unescaped(p + 2, quote, keep, value \o "\r")
         ELSE IF next \in {quote, "\\"} THEN Unescaped(p + 2, quote, keep, value \o next)
         ELSE IF keep THEN Unescaped(p + 2, quote, keep, (value \o "\\") \o next)
         ELSE Unescaped(p + 2, quote, keep, value \o next)
    ELSE Unescaped(p + 1, quote, keep, value \o lexer.source[p])
Strings == {i \in DOMAIN lexer.tokens : lexer.tokens[i].type = "STRING"}
ValueOf(i, keep) ==
    Unescaped(lexer.tokens[i].at + 2, lexer.source[lexer.tokens[i].at + 1], keep, "")

\* C25 (as amended): in a string literal, a backslash followed by a character
\* other than n, t, r, backslash or the opening quote stays in the string
\* value together with that character: the literal "a\qb" lexes to the
\* four-character value a \ q b.
C25_UnknownEscapeKeepsBackslash ==
    \A i \in Strings : lexer.tokens[i].value = ValueOf(i, TRUE)

\* C25 happens: "a\qb" was tokenized
C25_Witness ==
    /\ lexer.source = LexUnknownEscape
    /\ lexer.state = "done"
    /\ lexer.tokens[1].type = "STRING"
    /\ lexer.tokens[1].value = "a\\qb"

\* C25 (as stated): in a string literal, a backslash followed by a character
\* other than n, t, r, backslash or the opening quote contributes only that
\* character to the string value: the literal "a\qb" lexes to the
\* three-character value a q b.
C25_UnknownEscapeDropsBackslash ==
    \A i \in Strings : lexer.tokens[i].value = ValueOf(i, FALSE)

(***************************************************************************)
(* C26.  Ordering comparisons of operands that cannot be ordered.          *)
(***************************************************************************)
\* C26: an ordering comparison whose operands are not both numbers (a Bool
\* counted with the numbers) and not both strings fails with ForbiddenMagic,
\* which run() reports before it exits with status 1.
C26_UnorderedIsForbiddenMagic ==
    \A a \in OrderOperands, op \in OrderOperators, b \in OrderOperands :
        (/\ ~(a \in NumberOperands /\ b \in NumberOperands)
         /\ ~(a = OperandText /\ b = OperandText)
         /\ Ran(OrderProgram(a, op, b))) =>
            status = "exit1" /\ diag = "ForbiddenMagic"

(***************************************************************************)
(* C27.  A constant keeps its value when its scope declares the name again.*)
(***************************************************************************)
Declarations == {i \in DOMAIN interp.log : interp.log[i].ev = "define"}

\* C27: once a scope has flagged a name constant, a later declaration of the
\* name in that same scope (conjure, summon, spell or const prophecy) leaves
\* the value the scope binds to the name as it was, and the top-level
\* constant K of a program still holds the 1 it was declared with.
C27_ConstantValueNeverChanges ==
    /\ \A i \in Declarations :
           interp.log[i].sealed => interp.log[i].now = interp.log[i].was
    /\ "K" \in interp.envs[1].constants => interp.envs[1].values["K"] = IntV(1)

(***************************************************************************)
(* C28.  execute_block restores the environment.                           *)
(***************************************************************************)
Blocks == {i \in DOMAIN interp.log : interp.log[i].ev = "scope"}

\* C28: between the top-level statements, and once run() is over, whether the
\* statement returned or raised an error or a control signal from any depth
\* of blocks, loops and calls, the current environment is the global one; and
\* every block, however it was left, leaves current the environment that was
\* current when it was entered.
C28_EnvironmentRestored ==
    /\ interp.cur = 1
    /\ \A i \in Blocks : interp.log[i].current = interp.log[i].previous

\* C28 happens: an error raised two blocks deep ended the run
C28_Witness ==
    /\ status = "exit1"
    /\ \E i \in Blocks : \E j \in Blocks :
           /\ i < j
           /\ interp.log[i].how = diag /\ interp.log[j].how = diag
           /\ interp.log[i].previous = interp.log[j].env
           /\ interp.log[j].previous = 1

(***************************************************************************)
(* C29.  A loop over a list that its body changes.                         *)
(***************************************************************************)
Hunts == {i \in DOMAIN interp.log : interp.log[i].ev = "hunt"}
BodyRuns(loop) == {i \in DOMAIN interp.log : interp.log[i].ev = "iter" /\ interp.log[i].loop = loop}

\* C29: a loop over a list runs its body at most once per element the list
\* held when the loop started, also when the body appends to the list or
\* removes from it, and so the loop ends: no run is cut short by the budget
\* of iterations.
C29_AtMostOncePerElement ==
    /\ \A i \in Hunts : Cardinality(BodyRuns(interp.log[i].loop)) <= interp.log[i].length
    /\ status # "hung"

(***************************************************************************)
(* C30.  Break and continue at a function-invocation boundary.             *)
(***************************************************************************)
\* the blocks that are the body of a function invocation
Bodies == {i \in Blocks : \E k \in Invocations : k < i /\ interp.log[k].env = interp.log[i].env}

\* C30: a break or continue that leaves the body of a function invocation,
\* executed there outside every loop of that body, neither ends nor advances
\* a loop of the caller: the next thing a loop does is not to take that
\* signal.  So in the programs of the suite, whose loop makes two iterations
\* and counts in n those that ran to their end, no run ends with n below 2.
C30_SignalsStayInTheInvocation ==
    /\ \A i \in Bodies :
           interp.log[i].how \in Signals =>
               LET j == StepAfter(i)
               IN j # 0 => ~(/\ interp.log[j].ev \in {"end", "iter_end"}
                             /\ interp.log[j].how = interp.log[i].how)
    /\ \A body \in EscapingBodies \cup ContainedBodies, loop \in CallerLoops,
              site \in DirectSites \cup {SiteThroughG} :
           (Ran(CrossProgram(body, loop, site)) /\ status = "exit0") => last.val = IntV(2)

====
